---- MODULE Spec2Model ----
(***************************************************************************)
(* Story Buddy: the /chat stage-progression logic of src/main.py and       *)
(* src/main1.py (stateless, the client holds the session) and of           *)
(* src/main2.py (store-backed: sessions and chat_messages tables, FastAPI  *)
(* background tasks), with the /session/{book_id}/start lifecycle.         *)
(*                                                                         *)
(* Texts are TLA+ strings; str.replace, str.strip, str.upper, str.lower,   *)
(* the `in` substring test and startswith are computed character by        *)
(* character, the case conversions with the Unicode case mapping.          *)
(***************************************************************************)
EXTENDS Naturals, Integers, Sequences, FiniteSets, TLC

VARIABLES
    variant,        \* which /chat implementation answers (main, main1, main2)
    exch,           \* the last /chat exchange: request, collaborator texts, outcome
    cs,             \* the state the client holds and sends back (stateless API)
    sessions,       \* main2: table "sessions", row id = index
    chat_messages,  \* main2: table "chat_messages" (audit log), in insert order
    pc,             \* main2: position of each in-flight /chat request
    req,            \* main2: the ChatRequest (and user_id) of each request
    raws,           \* main2: collaborator texts received so far by each request
    resp,           \* main2: the outcome returned by each request
    tasks,          \* main2: BackgroundTasks of each request, not yet run
    prior,          \* main2: the requests in flight when each one was submitted
    client,         \* main2: what each user's client last received for its session
    started,        \* main2: outcome of the last /session/{book_id}/start call
    start_tasks,    \* main2: BackgroundTasks of returned start calls, not yet run
    store_errors,   \* main2: background writes the store has refused so far
    text,           \* sanitizer development: the collaborator text under study
    passes          \* sanitizer development: results of successive cleaning passes

vars == <<variant, exch, cs, sessions, chat_messages, pc, req, raws, resp, tasks,
          prior, client, started, start_tasks, store_errors, text, passes>>

turnVars  == <<variant, exch, cs>>
storeVars == <<sessions, chat_messages, pc, req, raws, resp, tasks, prior, client, started,
               start_tasks, store_errors>>
sanVars   == <<text, passes>>

(***************************************************************************)
(* Bounds of the model.                                                    *)
(***************************************************************************)
MaxTurns == 5            \* largest stage_turn_count a request may carry
MaxContextLen == 120     \* a request is modelled while its story_context is this short
CatalogSize == 2         \* number of story_stages rows of the known book (main2)
MaxParts == 3            \* a text under study is made of at most this many fragments
MaxStoreErrors == 1      \* background writes the store refuses in one behaviour
MaxLog == 4              \* an echoing main2 session sends requests while its audit log is shorter

(***************************************************************************)
(* Python string primitives.                                               *)
(***************************************************************************)
\* str.isspace() characters that str.strip() removes: tab, line feed, vertical
\* tab, form feed, carriage return, U+001C..U+001F, space, U+0085, U+00A0 and
\* U+1680.  The remaining ones (U+2000..U+200A, U+2028, U+2029, U+202F, U+205F,
\* U+3000) cannot be written in a string of this language, so no text of the
\* model holds them.
Whitespace == {" ", "\t", "\n", "\r", "\f", "", "", "", "", "",
               "", " ", " "}

CharAt(s, i) == SubSeq(s, i, i)

\* `sub in s`
Contains(s, sub) ==
    \E i \in 1..(Len(s) + 1 - Len(sub)) : SubSeq(s, i, i + Len(sub) - 1) = sub

\* s.startswith(p)
StartsWith(s, p) == Len(s) >= Len(p) /\ SubSeq(s, 1, Len(p)) = p

RECURSIVE Replace(_, _)
\* s.replace(old, ""): leftmost occurrences, scanned left to right, never rescanned
Replace(s, old) ==
    IF Len(s) < Len(old) THEN s
    ELSE IF SubSeq(s, 1, Len(old)) = old
         THEN Replace(SubSeq(s, Len(old) + 1, Len(s)), old)
         ELSE CharAt(s, 1) \o Replace(SubSeq(s, 2, Len(s)), old)

RECURSIVE LStrip(_)
LStrip(s) ==
    IF Len(s) > 0 /\ CharAt(s, 1) \in Whitespace THEN LStrip(SubSeq(s, 2, Len(s))) ELSE s

RECURSIVE RStrip(_)
RStrip(s) ==
    IF Len(s) > 0 /\ CharAt(s, Len(s)) \in Whitespace
    THEN RStrip(SubSeq(s, 1, Len(s) - 1)) ELSE s

\* s.strip()
Strip(s) == RStrip(LStrip(s))

\* str.upper() and str.lower() return Unicode text, and some of its characters
\* cannot be written in a string of this language (U+0178, the upper case of
\* U+00FF, is one).  The result of a case conversion is therefore a sequence of
\* characters: each one a one-character string or, where the character cannot
\* be written, its name "U+" followed by the four hexadecimal digits of its
\* code point.  The tables below hold the case mapping of every character a
\* string can hold whose mapping is not the character itself.

\* the text s as a sequence of characters
Chars(s) == [i \in 1..Len(s) |-> CharAt(s, i)]

\* characters whose upper case is one character a string can hold: the i-th of
\* UpperFrom upper-cases to the i-th of UpperTo
UpperFrom ==
    "abcdefghijklmnopqrstuvwxyzµàáâãäåæçèéêëìíîïðñòóôõöøùúûüýþƃƅƈƌƒƕƙ"
    \o "ơƣƥƨƭưƴƶƹƽƿǅǆǈǉǋǌǎǐǒǔǖǘǚǜǝǟǡǣǥǧǩǫǭǯǲǳǵǹǻǽǿʀʂʃʇʈʊʋʒʝʞάέήίαβγδεζηθ"
    \o "ικλμνξοπρςστυφχψωϊϋόύώϐϑϕϖϗϙϛϝϟϡϣϥϧϩϫϭϯϰϱϲϵϸϻҁҋҍҏґғҕҗҙқҝҟҡңҥҧҩҫҭ"
    \o "үұҳҵҷҹһҽҿӂӄӆӈӊӌӎӏӑӓӕӗәӛӝӟӡӣӥӧөӫӭӯӱӳӵӷӹӻӽӿაბგდევზთიკლმნოპჟრსტუფქღ"
    \o "ყშჩცძწჭხჯჰჱჲჳჴჵჶჷჸჹჺჽჾჿᏸᏹᏺᏻᏼᏽᶎẁẃẅẇẉẋẍẏẑẓẕạảấầẩẫậắằẳẵặẹẻẽếềểễệỉịọ"
    \o "ỏốồổỗộớờởỡợụủứừửữựỳỵỷỹỻỽỿᾰᾱιῐῑῠῡῥↄⓐⓑⓒⓓⓔⓕⓖⓗⓘⓙⓚⓛⓜⓝⓞⓟⓠⓡⓢⓣⓤⓥⓦⓧⓨⓩⲁⲃⲅⲇ"
    \o "ⲉⲋⲍⲏⲑⲓⲕⲗⲙⲛⲝⲟⲡⲣⲥⲧⲩⲫⲭⲯⲱⲳⲵⲷⲹⲻⲽⲿⳁⳃⳅⳇⳉⳋⳍⳏⳑⳓⳕⳗⳙⳛⳝⳟⳡⳣⳬⳮⳳꚁꚃꚅꚇꚉꚋꚍꚏꚑꚓꚕꚗꚙꚛꞁ"
    \o "ꞃꞅꞇꞌꞑꞓꞔꞗꞙꞛꞝꞟꞡꞣꞥꞧꞩꞵꞷꞹꞻꞽꞿꟁꟃꟈꟊꟑꟗꟙꟶꮀꮁꮂꮃꮄꮅꮆꮇꮈꮉꮊꮋꮌꮍꮎꮏꮐꮑꮒꮓꮔꮕꮖꮗꮘꮙꮚꮛꮜꮝꮞꮟꮠ"
    \o "ꮡꮢꮣꮤꮥꮦꮧꮨꮩꮪꮫꮬꮭꮮꮯꮰꮱꮲꮳꮴꮵꮶꮷꮸꮹꮺꮻꮼꮽꮾꮿ"

UpperTo ==
    "ABCDEFGHIJKLMNOPQRSTUVWXYZΜÀÁÂÃÄÅÆÇÈÉÊËÌÍÎÏÐÑÒÓÔÕÖØÙÚÛÜÝÞƂƄƇƋƑǶƘ"
    \o "ƠƢƤƧƬƯƳƵƸƼǷǄǄǇǇǊǊǍǏǑǓǕǗǙǛƎǞǠǢǤǦǨǪǬǮǱǱǴǸǺǼǾƦꟅƩꞱƮƱƲƷꞲꞰΆΈΉΊΑΒΓΔΕΖΗΘ"
    \o "ΙΚΛΜΝΞΟΠΡΣΣΤΥΦΧΨΩΪΫΌΎΏΒΘΦΠϏϘϚϜϞϠϢϤϦϨϪϬϮΚΡϹΕϷϺҀҊҌҎҐҒҔҖҘҚҜҞҠҢҤҦҨҪҬ"
    \o "ҮҰҲҴҶҸҺҼҾӁӃӅӇӉӋӍӀӐӒӔӖӘӚӜӞӠӢӤӦӨӪӬӮӰӲӴӶӸӺӼӾᲐᲑᲒᲓᲔᲕᲖᲗᲘᲙᲚᲛᲜᲝᲞᲟᲠᲡᲢᲣᲤᲥᲦ"
    \o "ᲧᲨᲩᲪᲫᲬᲭᲮᲯᲰᲱᲲᲳᲴᲵᲶᲷᲸᲹᲺᲽᲾᲿᏰᏱᏲᏳᏴᏵꟆẀẂẄẆẈẊẌẎẐẒẔẠẢẤẦẨẪẬẮẰẲẴẶẸẺẼẾỀỂỄỆỈỊỌ"
    \o "ỎỐỒỔỖỘỚỜỞỠỢỤỦỨỪỬỮỰỲỴỶỸỺỼỾᾸᾹΙῘῙῨῩῬↃⒶⒷⒸⒹⒺⒻⒼⒽⒾⒿⓀⓁⓂⓃⓄⓅⓆⓇⓈⓉⓊⓋⓌⓍⓎⓏⲀⲂⲄⲆ"
    \o "ⲈⲊⲌⲎⲐⲒⲔⲖⲘⲚⲜⲞⲠⲢⲤⲦⲨⲪⲬⲮⲰⲲⲴⲶⲸⲺⲼⲾⳀⳂⳄⳆⳈⳊⳌⳎⳐⳒⳔⳖⳘⳚⳜⳞⳠⳢⳫⳭⳲꚀꚂꚄꚆꚈꚊꚌꚎꚐꚒꚔꚖꚘꚚꞀ"
    \o "ꞂꞄꞆꞋꞐꞒꟄꞖꞘꞚꞜꞞꞠꞢꞤꞦꞨꞴꞶꞸꞺꞼꞾꟀꟂꟇꟉꟐꟖꟘꟵᎰᎱᎲᎳᎴᎵᎶᎷᎸᎹᎺᎻᎼᎽᎾᎿᏀᏁᏂᏃᏄᏅᏆᏇᏈᏉᏊᏋᏌᏍᏎᏏᏐ"
    \o "ᏑᏒᏓᏔᏕᏖᏗᏘᏙᏚᏛᏜᏝᏞᏟᏠᏡᏢᏣᏤᏥᏦᏧᏨᏩᏪᏫᏬᏭᏮᏯ"

\* characters whose upper case is several characters or cannot be written
UpperSpecial == <<
    <<"ß", <<"S", "S">>>>, <<"ÿ", <<"U+0178">>>>, <<"ƀ", <<"U+0243">>>>, <<"ƚ", <<"U+023D">>>>,
    <<"ƞ", <<"U+0220">>>>, <<"ǰ", <<"J", "U+030C">>>>, <<"ʉ", <<"U+0244">>>>,
    <<"ʌ", <<"U+0245">>>>, <<"ΐ", <<"Ι", "U+0308", "U+0301">>>>,
    <<"ΰ", <<"Υ", "U+0308", "U+0301">>>>, <<"ϳ", <<"U+037F">>>>, <<"ր", <<"U+0550">>>>,
    <<"ց", <<"U+0551">>>>, <<"ւ", <<"U+0552">>>>, <<"փ", <<"U+0553">>>>, <<"ք", <<"U+0554">>>>,
    <<"օ", <<"U+0555">>>>, <<"ֆ", <<"U+0556">>>>, <<"և", <<"U+0535", "U+0552">>>>,
    <<"ᲀ", <<"U+0412">>>>, <<"ᲁ", <<"U+0414">>>>, <<"ᲂ", <<"U+041E">>>>, <<"ᲃ", <<"U+0421">>>>,
    <<"ᲄ", <<"U+0422">>>>, <<"ᲅ", <<"U+0422">>>>, <<"ᲆ", <<"U+042A">>>>, <<"ᲇ", <<"U+0462">>>>,
    <<"ᲈ", <<"U+A64A">>>>, <<"ẖ", <<"H", "U+0331">>>>, <<"ẗ", <<"T", "U+0308">>>>,
    <<"ẘ", <<"W", "U+030A">>>>, <<"ẙ", <<"Y", "U+030A">>>>, <<"ẚ", <<"A", "ʾ">>>>,
    <<"ẛ", <<"U+1E60">>>>, <<"ᾀ", <<"U+1F08", "Ι">>>>, <<"ᾁ", <<"U+1F09", "Ι">>>>,
    <<"ᾂ", <<"U+1F0A", "Ι">>>>, <<"ᾃ", <<"U+1F0B", "Ι">>>>, <<"ᾄ", <<"U+1F0C", "Ι">>>>,
    <<"ᾅ", <<"U+1F0D", "Ι">>>>, <<"ᾆ", <<"U+1F0E", "Ι">>>>, <<"ᾇ", <<"U+1F0F", "Ι">>>>,
    <<"ᾈ", <<"U+1F08", "Ι">>>>, <<"ᾉ", <<"U+1F09", "Ι">>>>, <<"ᾊ", <<"U+1F0A", "Ι">>>>,
    <<"ᾋ", <<"U+1F0B", "Ι">>>>, <<"ᾌ", <<"U+1F0C", "Ι">>>>, <<"ᾍ", <<"U+1F0D", "Ι">>>>,
    <<"ᾎ", <<"U+1F0E", "Ι">>>>, <<"ᾏ", <<"U+1F0F", "Ι">>>>, <<"ᾐ", <<"U+1F28", "Ι">>>>,
    <<"ᾑ", <<"U+1F29", "Ι">>>>, <<"ᾒ", <<"U+1F2A", "Ι">>>>, <<"ᾓ", <<"U+1F2B", "Ι">>>>,
    <<"ᾔ", <<"U+1F2C", "Ι">>>>, <<"ᾕ", <<"U+1F2D", "Ι">>>>, <<"ᾖ", <<"U+1F2E", "Ι">>>>,
    <<"ᾗ", <<"U+1F2F", "Ι">>>>, <<"ᾘ", <<"U+1F28", "Ι">>>>, <<"ᾙ", <<"U+1F29", "Ι">>>>,
    <<"ᾚ", <<"U+1F2A", "Ι">>>>, <<"ᾛ", <<"U+1F2B", "Ι">>>>, <<"ᾜ", <<"U+1F2C", "Ι">>>>,
    <<"ᾝ", <<"U+1F2D", "Ι">>>>, <<"ᾞ", <<"U+1F2E", "Ι">>>>, <<"ᾟ", <<"U+1F2F", "Ι">>>>,
    <<"ᾠ", <<"U+1F68", "Ι">>>>, <<"ᾡ", <<"U+1F69", "Ι">>>>, <<"ᾢ", <<"U+1F6A", "Ι">>>>,
    <<"ᾣ", <<"U+1F6B", "Ι">>>>, <<"ᾤ", <<"U+1F6C", "Ι">>>>, <<"ᾥ", <<"U+1F6D", "Ι">>>>,
    <<"ᾦ", <<"U+1F6E", "Ι">>>>, <<"ᾧ", <<"U+1F6F", "Ι">>>>, <<"ᾨ", <<"U+1F68", "Ι">>>>,
    <<"ᾩ", <<"U+1F69", "Ι">>>>, <<"ᾪ", <<"U+1F6A", "Ι">>>>, <<"ᾫ", <<"U+1F6B", "Ι">>>>,
    <<"ᾬ", <<"U+1F6C", "Ι">>>>, <<"ᾭ", <<"U+1F6D", "Ι">>>>, <<"ᾮ", <<"U+1F6E", "Ι">>>>,
    <<"ᾯ", <<"U+1F6F", "Ι">>>>, <<"ᾲ", <<"Ὰ", "Ι">>>>, <<"ᾳ", <<"Α", "Ι">>>>,
    <<"ᾴ", <<"Ά", "Ι">>>>, <<"ᾶ", <<"Α", "U+0342">>>>, <<"ᾷ", <<"Α", "U+0342", "Ι">>>>,
    <<"ᾼ", <<"Α", "Ι">>>>, <<"ῂ", <<"Ὴ", "Ι">>>>, <<"ῃ", <<"Η", "Ι">>>>, <<"ῄ", <<"Ή", "Ι">>>>,
    <<"ῆ", <<"Η", "U+0342">>>>, <<"ῇ", <<"Η", "U+0342", "Ι">>>>, <<"ῌ", <<"Η", "Ι">>>>,
    <<"ῒ", <<"Ι", "U+0308", "U+0300">>>>, <<"ΐ", <<"Ι", "U+0308", "U+0301">>>>,
    <<"ῖ", <<"Ι", "U+0342">>>>, <<"ῗ", <<"Ι", "U+0308", "U+0342">>>>,
    <<"ῢ", <<"Υ", "U+0308", "U+0300">>>>, <<"ΰ", <<"Υ", "U+0308", "U+0301">>>>,
    <<"ῤ", <<"Ρ", "U+0313">>>>, <<"ῦ", <<"Υ", "U+0342">>>>, <<"ῧ", <<"Υ", "U+0308", "U+0342">>>>,
    <<"ῲ", <<"Ὼ", "Ι">>>>, <<"ῳ", <<"Ω", "Ι">>>>, <<"ῴ", <<"Ώ", "Ι">>>>,
    <<"ῶ", <<"Ω", "U+0342">>>>, <<"ῷ", <<"Ω", "U+0342", "Ι">>>>, <<"ῼ", <<"Ω", "Ι">>>> >>

\* characters whose lower case is one character a string can hold
LowerFrom ==
    "ABCDEFGHIJKLMNOPQRSTUVWXYZÀÁÂÃÄÅÆÇÈÉÊËÌÍÎÏÐÑÒÓÔÕÖØÙÚÛÜÝÞƂƄƇƋƎƑƘƠ"
    \o "ƢƤƦƧƩƬƮƯƱƲƳƵƷƸƼǄǅǇǈǊǋǍǏǑǓǕǗǙǛǞǠǢǤǦǨǪǬǮǱǲǴǶǷǸǺǼǾΆΈΉΊΌΎΏΑΒΓΔΕΖΗΘΙΚ"
    \o "ΛΜΝΞΟΠΡΣΤΥΦΧΨΩΪΫϏϘϚϜϞϠϢϤϦϨϪϬϮϴϷϹϺҀҊҌҎҐҒҔҖҘҚҜҞҠҢҤҦҨҪҬҮҰҲҴҶҸҺҼҾӀӁӃ"
    \o "ӅӇӉӋӍӐӒӔӖӘӚӜӞӠӢӤӦӨӪӬӮӰӲӴӶӸӺӼӾᎰᎱᎲᎳᎴᎵᎶᎷᎸᎹᎺᎻᎼᎽᎾᎿᏀᏁᏂᏃᏄᏅᏆᏇᏈᏉᏊᏋᏌᏍᏎᏏᏐᏑᏒ"
    \o "ᏓᏔᏕᏖᏗᏘᏙᏚᏛᏜᏝᏞᏟᏠᏡᏢᏣᏤᏥᏦᏧᏨᏩᏪᏫᏬᏭᏮᏯᏰᏱᏲᏳᏴᏵᲐᲑᲒᲓᲔᲕᲖᲗᲘᲙᲚᲛᲜᲝᲞᲟᲠᲡᲢᲣᲤᲥᲦᲧᲨᲩᲪᲫᲬ"
    \o "ᲭᲮᲯᲰᲱᲲᲳᲴᲵᲶᲷᲸᲹᲺᲽᲾᲿẀẂẄẆẈẊẌẎẐẒẔẞẠẢẤẦẨẪẬẮẰẲẴẶẸẺẼẾỀỂỄỆỈỊỌỎỐỒỔỖỘỚỜỞỠỢỤ"
    \o "ỦỨỪỬỮỰỲỴỶỸỺỼỾᾈᾉᾊᾋᾌᾍᾎᾏᾘᾙᾚᾛᾜᾝᾞᾟᾨᾩᾪᾫᾬᾭᾮᾯᾸᾹᾼῌῘῙῨῩῬῼↃⒶⒷⒸⒹⒺⒻⒼⒽⒾⒿⓀⓁⓂⓃⓄⓅ"
    \o "ⓆⓇⓈⓉⓊⓋⓌⓍⓎⓏⲀⲂⲄⲆⲈⲊⲌⲎⲐⲒⲔⲖⲘⲚⲜⲞⲠⲢⲤⲦⲨⲪⲬⲮⲰⲲⲴⲶⲸⲺⲼⲾⳀⳂⳄⳆⳈⳊⳌⳎⳐⳒⳔⳖⳘⳚⳜⳞⳠⳢⳫⳭⳲꚀ"
    \o "ꚂꚄꚆꚈꚊꚌꚎꚐꚒꚔꚖꚘꚚꞀꞂꞄꞆꞋꞐꞒꞖꞘꞚꞜꞞꞠꞢꞤꞦꞨꞰꞱꞲꞴꞶꞸꞺꞼꞾꟀꟂꟄꟅꟆꟇꟉꟐꟖꟘꟵ"

LowerTo ==
    "abcdefghijklmnopqrstuvwxyzàáâãäåæçèéêëìíîïðñòóôõöøùúûüýþƃƅƈƌǝƒƙơ"
    \o "ƣƥʀƨʃƭʈưʊʋƴƶʒƹƽǆǆǉǉǌǌǎǐǒǔǖǘǚǜǟǡǣǥǧǩǫǭǯǳǳǵƕƿǹǻǽǿάέήίόύώαβγδεζηθικ"
    \o "λμνξοπρστυφχψωϊϋϗϙϛϝϟϡϣϥϧϩϫϭϯθϸϲϻҁҋҍҏґғҕҗҙқҝҟҡңҥҧҩҫҭүұҳҵҷҹһҽҿӏӂӄ"
    \o "ӆӈӊӌӎӑӓӕӗәӛӝӟӡӣӥӧөӫӭӯӱӳӵӷӹӻӽӿꮀꮁꮂꮃꮄꮅꮆꮇꮈꮉꮊꮋꮌꮍꮎꮏꮐꮑꮒꮓꮔꮕꮖꮗꮘꮙꮚꮛꮜꮝꮞꮟꮠꮡꮢ"
    \o "ꮣꮤꮥꮦꮧꮨꮩꮪꮫꮬꮭꮮꮯꮰꮱꮲꮳꮴꮵꮶꮷꮸꮹꮺꮻꮼꮽꮾꮿᏸᏹᏺᏻᏼᏽაბგდევზთიკლმნოპჟრსტუფქღყშჩცძწ"
    \o "ჭხჯჰჱჲჳჴჵჶჷჸჹჺჽჾჿẁẃẅẇẉẋẍẏẑẓẕßạảấầẩẫậắằẳẵặẹẻẽếềểễệỉịọỏốồổỗộớờởỡợụ"
    \o "ủứừửữựỳỵỷỹỻỽỿᾀᾁᾂᾃᾄᾅᾆᾇᾐᾑᾒᾓᾔᾕᾖᾗᾠᾡᾢᾣᾤᾥᾦᾧᾰᾱᾳῃῐῑῠῡῥῳↄⓐⓑⓒⓓⓔⓕⓖⓗⓘⓙⓚⓛⓜⓝⓞⓟ"
    \o "ⓠⓡⓢⓣⓤⓥⓦⓧⓨⓩⲁⲃⲅⲇⲉⲋⲍⲏⲑⲓⲕⲗⲙⲛⲝⲟⲡⲣⲥⲧⲩⲫⲭⲯⲱⲳⲵⲷⲹⲻⲽⲿⳁⳃⳅⳇⳉⳋⳍⳏⳑⳓⳕⳗⳙⳛⳝⳟⳡⳣⳬⳮⳳꚁ"
    \o "ꚃꚅꚇꚉꚋꚍꚏꚑꚓꚕꚗꚙꚛꞁꞃꞅꞇꞌꞑꞓꞗꞙꞛꞝꞟꞡꞣꞥꞧꞩʞʇʝꞵꞷꞹꞻꞽꞿꟁꟃꞔʂᶎꟈꟊꟑꟗꟙꟶ"

\* characters whose lower case is several characters or cannot be written
LowerSpecial == <<
    <<"Ɓ", <<"U+0253">>>>, <<"Ɔ", <<"U+0254">>>>, <<"Ɖ", <<"U+0256">>>>, <<"Ɗ", <<"U+0257">>>>,
    <<"Ə", <<"U+0259">>>>, <<"Ɛ", <<"U+025B">>>>, <<"Ɠ", <<"U+0260">>>>, <<"Ɣ", <<"U+0263">>>>,
    <<"Ɩ", <<"U+0269">>>>, <<"Ɨ", <<"U+0268">>>>, <<"Ɯ", <<"U+026F">>>>, <<"Ɲ", <<"U+0272">>>>,
    <<"Ɵ", <<"U+0275">>>>, <<"Ͻ", <<"U+037B">>>>, <<"Ͼ", <<"U+037C">>>>, <<"Ͽ", <<"U+037D">>>>,
    <<"Ⴀ", <<"U+2D00">>>>, <<"Ⴁ", <<"U+2D01">>>>, <<"Ⴂ", <<"U+2D02">>>>, <<"Ⴃ", <<"U+2D03">>>>,
    <<"Ⴄ", <<"U+2D04">>>>, <<"Ⴅ", <<"U+2D05">>>>, <<"Ⴆ", <<"U+2D06">>>>, <<"Ⴇ", <<"U+2D07">>>>,
    <<"Ⴈ", <<"U+2D08">>>>, <<"Ⴉ", <<"U+2D09">>>>, <<"Ⴊ", <<"U+2D0A">>>>, <<"Ⴋ", <<"U+2D0B">>>>,
    <<"Ⴌ", <<"U+2D0C">>>>, <<"Ⴍ", <<"U+2D0D">>>>, <<"Ⴎ", <<"U+2D0E">>>>, <<"Ⴏ", <<"U+2D0F">>>>,
    <<"Ⴐ", <<"U+2D10">>>>, <<"Ⴑ", <<"U+2D11">>>>, <<"Ⴒ", <<"U+2D12">>>>, <<"Ⴓ", <<"U+2D13">>>>,
    <<"Ⴔ", <<"U+2D14">>>>, <<"Ⴕ", <<"U+2D15">>>>, <<"Ⴖ", <<"U+2D16">>>>, <<"Ⴗ", <<"U+2D17">>>>,
    <<"Ⴘ", <<"U+2D18">>>>, <<"Ⴙ", <<"U+2D19">>>>, <<"Ⴚ", <<"U+2D1A">>>>, <<"Ⴛ", <<"U+2D1B">>>>,
    <<"Ⴜ", <<"U+2D1C">>>>, <<"Ⴝ", <<"U+2D1D">>>>, <<"Ⴞ", <<"U+2D1E">>>>, <<"Ⴟ", <<"U+2D1F">>>>,
    <<"Ⴠ", <<"U+2D20">>>>, <<"Ⴡ", <<"U+2D21">>>>, <<"Ⴢ", <<"U+2D22">>>>, <<"Ⴣ", <<"U+2D23">>>>,
    <<"Ⴤ", <<"U+2D24">>>>, <<"Ⴥ", <<"U+2D25">>>>, <<"Ⴧ", <<"U+2D27">>>>, <<"Ⴭ", <<"U+2D2D">>>>,
    <<"Ꭰ", <<"U+AB70">>>>, <<"Ꭱ", <<"U+AB71">>>>, <<"Ꭲ", <<"U+AB72">>>>, <<"Ꭳ", <<"U+AB73">>>>,
    <<"Ꭴ", <<"U+AB74">>>>, <<"Ꭵ", <<"U+AB75">>>>, <<"Ꭶ", <<"U+AB76">>>>, <<"Ꭷ", <<"U+AB77">>>>,
    <<"Ꭸ", <<"U+AB78">>>>, <<"Ꭹ", <<"U+AB79">>>>, <<"Ꭺ", <<"U+AB7A">>>>, <<"Ꭻ", <<"U+AB7B">>>>,
    <<"Ꭼ", <<"U+AB7C">>>>, <<"Ꭽ", <<"U+AB7D">>>>, <<"Ꭾ", <<"U+AB7E">>>>, <<"Ꭿ", <<"U+AB7F">>>>,
    <<"Ὰ", <<"U+1F70">>>>, <<"Ά", <<"U+1F71">>>>, <<"Ὲ", <<"U+1F72">>>>, <<"Έ", <<"U+1F73">>>>,
    <<"Ὴ", <<"U+1F74">>>>, <<"Ή", <<"U+1F75">>>>, <<"Ὶ", <<"U+1F76">>>>, <<"Ί", <<"U+1F77">>>>,
    <<"Ὺ", <<"U+1F7A">>>>, <<"Ύ", <<"U+1F7B">>>>, <<"Ὸ", <<"U+1F78">>>>, <<"Ό", <<"U+1F79">>>>,
    <<"Ὼ", <<"U+1F7C">>>>, <<"Ώ", <<"U+1F7D">>>>, <<"Ɥ", <<"U+0265">>>>, <<"Ɦ", <<"U+0266">>>>,
    <<"Ɜ", <<"U+025C">>>>, <<"Ɡ", <<"U+0261">>>>, <<"Ɬ", <<"U+026C">>>>, <<"Ɪ", <<"U+026A">>>>,
    <<"Ꭓ", <<"U+AB53">>>> >>

\* the case-ignorable characters a string can hold
CaseIgnorableChars ==
    "`'.:^¨­¯´·¸ʰʱʲʳʴʵʶʷʸʹʺʻʼʽʾʿˀˁ˂˃˄˅ˆˇˈˉˊˋˌˍˎˏːˑ˒˓˔˕˖˗˘˙˚˛˜˝˞˟ˠˡˢˣˤ"
    \o "˥˦˧˨˩˪˫ˬ˭ˮ˯˰˱˲˳˴˵˶˷˸˹˺˻˼˽˾˿΄΅·҃҄҅҆҇҈҉֑֖֛֢֣֤֥֦֧֪֚֒֓֔֕֗֘֙֜֝֞֟֠֡֨֩֫"
    \o "ְֱֲֳִֵֶַָׇֹֺֻּֽֿׁׂׅ֭֮֬֯ׄ״ۖۗۘۙۚۛۜ۝ۣ۟۠ۡۢۤۥۦ۪ۭۧۨ۫۬ަާިީުޫެޭޮޯް߫߬߭߮߯߰"
    \o "߲߱߳ߴߵߺ߽࢈࢐࢑࢙࢚࢛࢘࢜࢝࢞࢟ࣉ࣏࣐࣑࣒࣓࣊࣋࣌࣍࣎ࣔࣕࣖࣗࣘࣙࣚࣛࣜࣝࣞࣟ࣠࣡࣢ࣰࣱࣲࣣࣦࣩ࣭࣮࣯ࣶࣤࣥࣧࣨ࣪࣫࣬ࣳࣴࣵ"
    \o "ࣹࣺࣷࣸࣻࣼࣽࣾࣿঁ়ুূৃৄ্ৢৣ৾ઁં઼ુૂૃૄૅેૈ્ૢૣૺૻૼ૽૾૿ஂீ்ಁ಼ಿೆೌ್ೢೣඁ්ිීුූັິີຶື຺ຸູົ"
    \o "ຼໆ່້໊໋໌ໍ྄ཱྀྀྂྃ྆྇ྍྎྏྐྑྒྒྷྔྕྖྗྙྚྛྜྜྷྞྟྠྡྡྷྣྤྥྦྦྷྨྩྪྫྫྷྭྮྯྰྱྲླྴྵྶྷྸྐྵྺྻྼ࿆ႂ"
    \o "ႅႆႍႝჼ឴឵ិីឹឺុូួំ៉៊់៌៍៎៏័៑្៓ៗ៝ᢅᢆᢩᪧ᪵᪶᪷᪸᪹᪺᪽᪰᪱᪲᪳᪴᪻᪼᪾ᪿᫀ᫃᫄᫊᫁᫂᫅᫆᫇᫈᫉᫋ᫌᫍᫎᮀ"
    \o "ᮁᮢᮣᮤᮥᮨᮩ᮫ᮬᮭ᯦ᯨᯩᯭᯯᯰᯱ᳔᳢᳣᳤᳥᳦᳧᳨᳕᳖᳗᳘᳙᳜᳝᳞᳟᳭᳐᳑᳒᳚᳛᳠᳴᳸᳹ᶛᶜᶝᶞᶟᶠᶡᶢᶣᶤᶥᶦᶧᶨᶩᶪᶫᶬᶭᶮ"
    \o "ᶯᶰᶱᶲᶳᶴᶵᶶᶷᶸᶹᶺᶻᶼᶽᶾᶿ᷐᷎᷂᷊᷏᷀᷁᷃᷄᷅᷆᷇᷈᷉᷋᷌᷑᷒ᷓᷔᷕᷖᷗᷘᷙᷚᷛᷜᷝᷞᷟᷠᷡᷢᷣᷤᷥᷦᷧᷨᷩᷪᷫᷬᷭᷮ᷍"
    \o "᷺᷹᷽᷿᷷᷸ᷯᷰᷱᷲᷳᷴ᷵᷻᷾᷶᷼᾽᾿῀῁῍῎῏῝῞῟῭΅`´῾ₐₑₒₓₔₕₖₗₘₙₚₛₜ⃒⃓⃘⃙⃚⃐⃑⃔⃕⃖⃗⃛⃜⃝⃞⃟⃠⃡⃢"
    \o "⃣⃤⃥⃦⃪⃫゙゚⃨⃬⃭⃮⃯⃧⃩⃰⳯⳰⳱ⷠⷡⷢⷣⷤⷥⷦⷧⷨⷩⷪⷫⷬⷭⷮⷯⷰⷱⷲⷳⷴⷵⷶⷷⷸⷹⷺⷻⷼⷽⷾⷿ゛゜ゝゞーヽヾꓸꓹꓺꓻꓼꓽ"
    \o "ꚜꚝꚞꚟ꛰꛱ꞈ꞉꞊ꟲꟳꟴꟸꟹ꣄ꣅ꣠꣡꣢꣣꣤꣥꣦꣧꣨꣩꣪꣫꣬꣭꣮꣯꣰꣱ꣿꦀꦁꦂ꦳ꦶꦷꦸꦹꦼꦽꧏꧥꧦꪴꪰꪲꪳꪷꪸꪾ꪿꫁ꫝꫬꫭꫳꫴ꫶ꯥ"
    \o "ꯨ꯭﮲﮳﮴﮵﮶﮷﮸﮹﮺﮻﮼﮽﮾﮿﯀﯁﯂﻿ﾞﾟ￣￹￺￻"

\* the cased characters a string can hold, the case-ignorable ones apart
CasedChars ==
    "ABCDEFGHIJKLMNOPQRSTUVWXYZabcdefghijklmnopqrstuvwxyzªµºÀÁÂÃÄÅÆÇÈ"
    \o "ÉÊËÌÍÎÏÐÑÒÓÔÕÖØÙÚÛÜÝÞßàáâãäåæçèéêëìíîïðñòóôõöøùúûüýþÿƀƁƂƃƄƅƆƇƈƉƊ"
    \o "ƋƌƍƎƏƐƑƒƓƔƕƖƗƘƙƚƛƜƝƞƟƠơƢƣƤƥƦƧƨƩƪƫƬƭƮƯưƱƲƳƴƵƶƷƸƹƺƼƽƾƿǄǅǆǇǈǉǊǋǌǍǎǏ"
    \o "ǐǑǒǓǔǕǖǗǘǙǚǛǜǝǞǟǠǡǢǣǤǥǦǧǨǩǪǫǬǭǮǯǰǱǲǳǴǵǶǷǸǹǺǻǼǽǾǿʀʁʂʃʄʅʆʇʈʉʊʋʌʍʎʏ"
    \o "ʐʑʒʓʕʖʗʘʙʚʛʜʝʞʟʠʡʢʣʤʥʦʧʨʩʪʫʬʭʮʯΆΈΉΊΌΎΏΐΑΒΓΔΕΖΗΘΙΚΛΜΝΞΟΠΡΣΤΥΦΧΨΩΪ"
    \o "ΫάέήίΰαβγδεζηθικλμνξοπρςστυφχψωϊϋόύώϏϐϑϒϓϔϕϖϗϘϙϚϛϜϝϞϟϠϡϢϣϤϥϦϧϨϩϪ"
    \o "ϫϬϭϮϯϰϱϲϳϴϵϷϸϹϺϻϼϽϾϿҀҁҊҋҌҍҎҏҐґҒғҔҕҖҗҘҙҚқҜҝҞҟҠҡҢңҤҥҦҧҨҩҪҫҬҭҮүҰұҲҳ"
    \o "ҴҵҶҷҸҹҺһҼҽҾҿӀӁӂӃӄӅӆӇӈӉӊӋӌӍӎӏӐӑӒӓӔӕӖӗӘәӚӛӜӝӞӟӠӡӢӣӤӥӦӧӨөӪӫӬӭӮӯӰӱӲӳ"
    \o "ӴӵӶӷӸӹӺӻӼӽӾӿրցւփքօֆևֈႠႡႢႣႤႥႦႧႨႩႪႫႬႭႮႯႰႱႲႳႴႵႶႷႸႹႺႻႼႽႾႿჀჁჂჃჄჅჇჍაბგ"
    \o "დევზთიკლმნოპჟრსტუფქღყშჩცძწჭხჯჰჱჲჳჴჵჶჷჸჹჺჽჾჿᎠᎡᎢᎣᎤᎥᎦᎧᎨᎩᎪᎫᎬᎭᎮᎯᎰᎱᎲᎳᎴ"
    \o "ᎵᎶᎷᎸᎹᎺᎻᎼᎽᎾᎿᏀᏁᏂᏃᏄᏅᏆᏇᏈᏉᏊᏋᏌᏍᏎᏏᏐᏑᏒᏓᏔᏕᏖᏗᏘᏙᏚᏛᏜᏝᏞᏟᏠᏡᏢᏣᏤᏥᏦᏧᏨᏩᏪᏫᏬᏭᏮᏯᏰᏱᏲᏳᏴ"
    \o "ᏵᏸᏹᏺᏻᏼᏽᲀᲁᲂᲃᲄᲅᲆᲇᲈᲐᲑᲒᲓᲔᲕᲖᲗᲘᲙᲚᲛᲜᲝᲞᲟᲠᲡᲢᲣᲤᲥᲦᲧᲨᲩᲪᲫᲬᲭᲮᲯᲰᲱᲲᲳᲴᲵᲶᲷᲸᲹᲺᲽᲾᲿᶀᶁ"
    \o "ᶂᶃᶄᶅᶆᶇᶈᶉᶊᶋᶌᶍᶎᶏᶐᶑᶒᶓᶔᶕᶖᶗᶘᶙᶚẀẁẂẃẄẅẆẇẈẉẊẋẌẍẎẏẐẑẒẓẔẕẖẗẘẙẚẛẜẝẞẟẠạẢảẤấẦ"
    \o "ầẨẩẪẫẬậẮắẰằẲẳẴẵẶặẸẹẺẻẼẽẾếỀềỂểỄễỆệỈỉỊịỌọỎỏỐốỒồỔổỖỗỘộỚớỜờỞởỠỡỢợỤụỦ"
    \o "ủỨứỪừỬửỮữỰựỲỳỴỵỶỷỸỹỺỻỼỽỾỿᾀᾁᾂᾃᾄᾅᾆᾇᾈᾉᾊᾋᾌᾍᾎᾏᾐᾑᾒᾓᾔᾕᾖᾗᾘᾙᾚᾛᾜᾝᾞᾟᾠᾡᾢᾣᾤᾥᾦ"
    \o "ᾧᾨᾩᾪᾫᾬᾭᾮᾯᾰᾱᾲᾳᾴᾶᾷᾸᾹᾺΆᾼιῂῃῄῆῇῈΈῊΉῌῐῑῒΐῖῗῘῙῚΊῠῡῢΰῤῥῦῧῨῩῪΎῬῲῳῴῶῷῸΌῺΏ"
    \o "ῼↃↄⒶⒷⒸⒹⒺⒻⒼⒽⒾⒿⓀⓁⓂⓃⓄⓅⓆⓇⓈⓉⓊⓋⓌⓍⓎⓏⓐⓑⓒⓓⓔⓕⓖⓗⓘⓙⓚⓛⓜⓝⓞⓟⓠⓡⓢⓣⓤⓥⓦⓧⓨⓩⲀⲁⲂⲃⲄⲅⲆⲇⲈ"
    \o "ⲉⲊⲋⲌⲍⲎⲏⲐⲑⲒⲓⲔⲕⲖⲗⲘⲙⲚⲛⲜⲝⲞⲟⲠⲡⲢⲣⲤⲥⲦⲧⲨⲩⲪⲫⲬⲭⲮⲯⲰⲱⲲⲳⲴⲵⲶⲷⲸⲹⲺⲻⲼⲽⲾⲿⳀⳁⳂⳃⳄⳅⳆⳇⳈ"
    \o "ⳉⳊⳋⳌⳍⳎⳏⳐⳑⳒⳓⳔⳕⳖⳗⳘⳙⳚⳛⳜⳝⳞⳟⳠⳡⳢⳣⳤⳫⳬⳭⳮⳲⳳꚀꚁꚂꚃꚄꚅꚆꚇꚈꚉꚊꚋꚌꚍꚎꚏꚐꚑꚒꚓꚔꚕꚖꚗꚘꚙꚚꚛꞀꞁ"
    \o "ꞂꞃꞄꞅꞆꞇꞋꞌꞍꞎꞐꞑꞒꞓꞔꞕꞖꞗꞘꞙꞚꞛꞜꞝꞞꞟꞠꞡꞢꞣꞤꞥꞦꞧꞨꞩꞪꞫꞬꞭꞮꞯꞰꞱꞲꞳꞴꞵꞶꞷꞸꞹꞺꞻꞼꞽꞾꞿꟀꟁꟂꟃꟄꟅ"
    \o "ꟆꟇꟈꟉꟊꟐꟑꟓꟕꟖꟗꟘꟙꟵꟶꟺꮀꮁꮂꮃꮄꮅꮆꮇꮈꮉꮊꮋꮌꮍꮎꮏꮐꮑꮒꮓꮔꮕꮖꮗꮘꮙꮚꮛꮜꮝꮞꮟꮠꮡꮢꮣꮤꮥꮦꮧꮨꮩꮪꮫꮬꮭꮮꮯ"
    \o "ꮰꮱꮲꮳꮴꮵꮶꮷꮸꮹꮺꮻꮼꮽꮾꮿ"

\* the mapping that takes the i-th character of `from` to the i-th of `to`, and
\* the first component of each pair of `special` to its second
CaseTable(from, to, special) ==
    [c \in {CharAt(from, i) : i \in 1..Len(from)} \cup {special[i][1] : i \in DOMAIN special} |->
        IF \E i \in DOMAIN special : special[i][1] = c
        THEN special[CHOOSE i \in DOMAIN special : special[i][1] = c][2]
        ELSE <<CharAt(to, CHOOSE i \in 1..Len(from) : CharAt(from, i) = c)>>]

UpperTable == CaseTable(UpperFrom, UpperTo, UpperSpecial)
LowerTable == CaseTable(LowerFrom, LowerTo, LowerSpecial)
HasUpper == DOMAIN UpperTable
HasLower == DOMAIN LowerTable
CaseIgnorable == {CharAt(CaseIgnorableChars, i) : i \in 1..Len(CaseIgnorableChars)}
Cased == {CharAt(CasedChars, i) : i \in 1..Len(CasedChars)}

\* the upper case of one character
UpperChar(c) == IF c \in HasUpper THEN UpperTable[c] ELSE <<c>>

\* the lower case of one character, its context apart
LowerChar(c) == IF c \in HasLower THEN LowerTable[c] ELSE <<c>>

RECURSIVE Upper(_)
\* s.upper()
Upper(s) ==
    IF Len(s) = 0 THEN <<>>
    ELSE UpperChar(CharAt(s, 1)) \o Upper(SubSeq(s, 2, Len(s)))

\* the lower case of the capital sigma at position i of s: the final sigma when
\* a cased character stands before it and none after it, case-ignorable
\* characters skipped on both sides
handle_capital_sigma(s, i) ==
    LET before == {j \in 1..(i - 1) : CharAt(s, j) \notin CaseIgnorable}
        after == {j \in (i + 1)..Len(s) : CharAt(s, j) \notin CaseIgnorable}
        last == CHOOSE j \in before : \A k \in before : k <= j
        next == CHOOSE j \in after : \A k \in after : j <= k
    IN  IF /\ before # {}
           /\ CharAt(s, last) \in Cased
           /\ (after = {} \/ CharAt(s, next) \notin Cased)
        THEN "ς" ELSE "σ"

RECURSIVE LowerLoop(_, _)
\* the lower case of s[i:], in the context of the whole of s
LowerLoop(s, i) ==
    IF i > Len(s) THEN <<>>
    ELSE (IF CharAt(s, i) = "Σ" THEN <<handle_capital_sigma(s, i)>>
          ELSE LowerChar(CharAt(s, i)))
         \o LowerLoop(s, i + 1)

\* s.lower()
Lower(s) == LowerLoop(s, 1)


(***************************************************************************)
(* The generation collaborator: model.generate_content(...).text either    *)
(* returns a text or raises.                                               *)
(***************************************************************************)
Returned(t) == [ok |-> TRUE, text |-> t]
Raised == [ok |-> FALSE, text |-> ""]
NotCalled == [ok |-> FALSE, text |-> "(not called)"]

ADVANCE_TAG == "[ADVANCE]"
STAY_TAG == "[STAY]"

(***************************************************************************)
(* src/main.py: POST /chat.                                                *)
(***************************************************************************)
TurnLimitMain == 2
StageCapMain == 8

ImagePrefix == "https://raw.githubusercontent.com/balaprakas/images/refs/heads/main/rainbowstory/"
IMAGE_MAP == [n \in 1..8 |->
    ImagePrefix \o <<"RainbowStory_Image1.jpg", "RainbowStory_Image2.jpg",
                     "RainbowStory_Image3.jpg", "RainbowStory_Image4.jpg",
                     "RainbowStory_Image5.jpg", "RainbowStory_Image6.jpg",
                     "RainbowStory_Image7.jpg", "RainbowStory_Image8.jpg">>[n]]

\* IMAGE_MAP.get(new_stage, IMAGE_MAP[8])
image_url_of(n) == IF n \in DOMAIN IMAGE_MAP THEN IMAGE_MAP[n] ELSE IMAGE_MAP[8]

should_advance_main(r, raw) ==
    Contains(raw, ADVANCE_TAG) \/ r.stage_turn_count >= TurnLimitMain

\* new_stage without the cap
new_stage_main_uncapped(r, adv) ==
    IF adv THEN r.current_stage + 1 ELSE r.current_stage

\* new_stage, capped
new_stage_main(r, adv) ==
    LET n == IF adv THEN r.current_stage + 1 ELSE r.current_stage
    IN  IF n > StageCapMain THEN StageCapMain ELSE n

new_turn_count(r, adv) == IF adv THEN 0 ELSE r.stage_turn_count + 1

EMOTIONS == <<"SURPRISED", "THINKING", "SAD">>

RECURSIVE EmotionLoop(_, _, _)
\* for e in [...]: if e in raw_response.upper(): detected_emotion = e
EmotionLoop(raw, i, detected) ==
    IF i > Len(EMOTIONS) THEN detected
    ELSE EmotionLoop(raw, i + 1,
                     IF Contains(Upper(raw), Chars(EMOTIONS[i])) THEN EMOTIONS[i] ELSE detected)

detected_emotion(raw) == EmotionLoop(raw, 1, "HAPPY")

\* raw_response.replace("[ADVANCE]", "").replace("[STAY]", "").strip()
clean_reply_main(raw) == Strip(Replace(Replace(raw, ADVANCE_TAG), STAY_TAG))

action_of(adv) == IF adv THEN "ADVANCE" ELSE "STAY"

HttpError(detail) == [kind |-> "http_error", status |-> 500, detail |-> detail]
Unhandled(what) == [kind |-> "unhandled", status |-> 500, error |-> what]

ChatEndpointMain(r, g) ==
    IF ~g.ok THEN HttpError("The Story Buddy got a bit sleepy. Try again!")
    ELSE LET adv == should_advance_main(r, g.text)
             ns  == new_stage_main(r, adv)
         IN  [kind |-> "ok",
              reply |-> clean_reply_main(g.text),
              current_stage |-> ns,
              stage_turn_count |-> new_turn_count(r, adv),
              story_context |-> r.story_context \o " " \o r.user_input \o ".",
              action |-> action_of(adv),
              emotion |-> detected_emotion(g.text),
              image_url |-> image_url_of(ns)]

\* GET /start
start_story == [current_stage |-> 1, stage_turn_count |-> 0,
                story_context |-> "The story begins."]

(***************************************************************************)
(* src/main1.py: POST /chat.                                               *)
(***************************************************************************)
TurnLimitMain1 == 4
StageCapMain1 == 8
BUTTON_PHRASE == "i have finished writing this part in my template"
PREFIXES == <<"HAPPY:", "SURPRISED:", "THINKING:", "SAD:">>

button_done(r) == Contains(Lower(r.user_input), Chars(BUTTON_PHRASE))
turn_limit_reached(r) == r.stage_turn_count >= TurnLimitMain1
ai_wants_advance(raw) == Contains(raw, ADVANCE_TAG)
should_advance_main1(r, raw) ==
    ai_wants_advance(raw) \/ button_done(r) \/ turn_limit_reached(r)

new_stage_main1(r, adv) ==
    LET n == IF adv THEN r.current_stage + 1 ELSE r.current_stage
    IN  IF n > StageCapMain1 THEN StageCapMain1 ELSE n

RECURSIVE PrefixLoop(_, _)
\* for p in [...]: if clean_reply.upper().startswith(p): clean_reply = clean_reply[len(p):].strip()
PrefixLoop(c, i) ==
    IF i > Len(PREFIXES) THEN c
    ELSE PrefixLoop(IF StartsWith(Upper(c), Chars(PREFIXES[i]))
                    THEN Strip(SubSeq(c, Len(PREFIXES[i]) + 1, Len(c)))
                    ELSE c,
                    i + 1)

clean_reply_main1(raw) ==
    PrefixLoop(Strip(Replace(Replace(raw, ADVANCE_TAG), STAY_TAG)), 1)

ChatEndpointMain1(r, g) ==
    IF ~g.ok THEN HttpError("The Story Buddy is thinking...")
    ELSE LET adv == should_advance_main1(r, g.text)
             ns  == new_stage_main1(r, adv)
         IN  [kind |-> "ok",
              reply |-> clean_reply_main1(g.text),
              current_stage |-> ns,
              stage_turn_count |-> new_turn_count(r, adv),
              story_context |-> r.story_context \o " Child: " \o r.user_input \o ".",
              action |-> action_of(adv),
              emotion |-> "HAPPY",
              image_url |-> image_url_of(ns)]

(***************************************************************************)
(* src/main2.py: POST /chat, the request handler up to its return.         *)
(* The stage catalog is the story_stages table; the books KnownBook and    *)
(* OtherBook have rows.                                                    *)
(***************************************************************************)
KnownBook == "b1"
OtherBook == "b2"
UnknownBook == "bX"
BookTitle == "Rainbow"

\* book['title'] of a row of the books table
TitleOf(b) == IF b = KnownBook THEN BookTitle ELSE "Moon"

\* supabase.table("story_stages").select("*").eq("book_id", book_id).order("stage_number")
story_stages(book_id) ==
    IF book_id \in {KnownBook, OtherBook}
    THEN [n \in 1..CatalogSize |->
             [stage_number |-> n,
              theme |-> "theme " \o book_id \o "-" \o CharAt("0123456789", n + 1),
              image_url |-> <<"image", book_id, n>>]]
    ELSE <<>>

\* stages_map = {s['stage_number']: s for s in stages}; membership of a key
HasStage(book_id, n) == n \in DOMAIN story_stages(book_id)

updated_context(r) == r.story_context \o " | Child: " \o r.user_input

\* the decision with [STAY] taking precedence over [ADVANCE]
should_adv_unless_stay(r, raw) ==
    /\ Contains(raw, ADVANCE_TAG) /\ ~Contains(raw, STAY_TAG)
    /\ HasStage(r.book_id, r.current_stage + 1)

\* "[ADVANCE]" in ai_res_raw and nxt
should_adv(r, raw) ==
    Contains(raw, ADVANCE_TAG) /\ HasStage(r.book_id, r.current_stage + 1)

clean_reply_main2(raw) == Strip(Replace(Replace(raw, ADVANCE_TAG), STAY_TAG))

\* the reply of pass 2
welcome_reply(next_res) == "Yay! You did a wonderful job. " \o Strip(next_res)

\* stages_map.get(new_stage, {}).get("image_url", curr["image_url"])
final_image(r, ns) ==
    IF HasStage(r.book_id, ns) THEN story_stages(r.book_id)[ns].image_url
    ELSE story_stages(r.book_id)[r.current_stage].image_url

\* curr['theme']
curr_theme(r) == story_stages(r.book_id)[r.current_stage].theme

\* the f-string of pass 1
system_instruction(r) ==
    "\n"
    \o "    You are 'Story Buddy', a magical, silly, and very kind friend for a child author.\n"
    \o "    \n"
    \o "    CONTEXT: "
    \o updated_context(r)
    \o "\n"
    \o "    CURRENT THEME: "
    \o curr_theme(r)
    \o "\n"
    \o "    \n"
    \o "    KID-FRIENDLY RULES:\n"
    \o "    1. Use very simple English. Be encouraging (\"Yay!\", \"Great job!\").\n"
    \o "    2. Reference the \"images in the book\" for the theme: "
    \o curr_theme(r)
    \o ".\n"
    \o "    3. If brainstorming is done (2+ turns), ask: \"Tell me when you have written this part in your template!\"\n"
    \o "    4. ADVANCING: \n"
    \o "       - Include [ADVANCE] ONLY if the child confirms they finished writing (e.g. \"done\", \"yes\", \"i wrote it\").\n"
    \o "       - Otherwise, include [STAY].\n"
    \o "    5. Keep response to 2 short sentences.\n"
    \o "    "

\* [msg for msg in req.history if msg["content"] != req.user_input]
clean_history(r) ==
    LET keep(msg) == msg.content # r.user_input
    IN  SelectSeq(r.history, keep)

\* "model" if msg["role"] == "assistant" else "user"
role_of(msg) == IF msg.role = "assistant" THEN "model" ELSE "user"

\* the list handed to model.generate_content in pass 1
messages(r) ==
    LET ch == clean_history(r)
    IN  <<[role |-> "user", parts |-> <<system_instruction(r)>>]>>
        \o [i \in 1..Len(ch) |-> [role |-> role_of(ch[i]), parts |-> <<ch[i].content>>]]
        \o <<[role |-> "user", parts |-> <<r.user_input>>]>>

\* the response with the marker of the second text honoured as well
Response2SecondDecides(r, raw1, g2) ==
    LET adv == should_adv(r, raw1)
        again == adv /\ Contains(g2.text, ADVANCE_TAG)
        ns  == IF again THEN r.current_stage + 2
               ELSE IF adv THEN r.current_stage + 1 ELSE r.current_stage
    IN  [kind |-> "ok",
         reply |-> IF adv THEN welcome_reply(g2.text) ELSE clean_reply_main2(raw1),
         current_stage |-> ns,
         stage_turn_count |-> new_turn_count(r, adv),
         image_url |-> final_image(r, ns),
         action |-> action_of(adv),
         story_context |-> updated_context(r)]

\* the dict returned at the end of the handler
Response2(r, raw1, g2) ==
    LET adv == should_adv(r, raw1)
        ns  == IF adv THEN r.current_stage + 1 ELSE r.current_stage
    IN  [kind |-> "ok",
         reply |-> IF adv THEN welcome_reply(g2.text) ELSE clean_reply_main2(raw1),
         current_stage |-> ns,
         stage_turn_count |-> new_turn_count(r, adv),
         image_url |-> final_image(r, ns),
         action |-> action_of(adv),
         story_context |-> updated_context(r)]

\* the whole handler as a function of the request and the collaborator's answers
ChatEndpointMain2(r, g1, g2) ==
    IF ~HasStage(r.book_id, r.current_stage) THEN Unhandled("KeyError")
    ELSE IF ~g1.ok THEN Unhandled("generate_content")
    ELSE IF should_adv(r, g1.text) /\ ~g2.ok THEN Unhandled("generate_content")
    ELSE Response2(r, g1.text, g2)


(***************************************************************************)
(* src/main2.py: the rows of the store and the background tasks.  A task    *)
(* runs after the response has been sent; when the store raises, the       *)
(* except branch of the task prints the error and the write is lost.       *)
(***************************************************************************)
\* the row inserted for a new session; is_archived takes the column default
NewSession(u, b) ==
    [user_id |-> u, book_id |-> b, current_stage |-> 1, stage_turn_count |-> 0,
     story_context |-> "Book: " \o TitleOf(b), is_archived |-> FALSE]

\* the chat_messages row of welcome_msg for a new session
WelcomeMessage(sid, u) ==
    [session_id |-> sid, user_id |-> u, role |-> "assistant",
     content |-> "Hi! I'm Story Buddy. What do you see?"]

\* background_tasks.add_task(log_to_db, session_id, user_id, role, content)
LogTask(sid, u, role, content) ==
    [task |-> "log_to_db",
     row |-> [session_id |-> sid, user_id |-> u, role |-> role, content |-> content]]

\* background_tasks.add_task(update_session_state, session_id, stage, turns, context)
UpdateTask(sid, stage, turns, context) ==
    [task |-> "update_session_state", session_id |-> sid, stage |-> stage,
     turns |-> turns, context |-> context]

\* supabase.table("chat_messages").insert({...})
log_to_db(cm, k) == Append(cm, k.row)

\* supabase.table("sessions").update({...}).eq("id", session_id)
update_session_state(ss, k) ==
    [i \in DOMAIN ss |->
        IF i = k.session_id
        THEN [ss[i] EXCEPT !.current_stage = k.stage, !.stage_turn_count = k.turns,
                           !.story_context = k.context]
        ELSE ss[i]]

\* the tables after task k has run and the store has taken its write
TaskWrite(st, k) ==
    IF k.task = "log_to_db"
    THEN [st EXCEPT !.chat_messages = log_to_db(st.chat_messages, k)]
    ELSE [st EXCEPT !.sessions = update_session_state(st.sessions, k)]

\* the tasks a handler has queued when it returns, in the order of add_task
TasksAtReturn(r, out) ==
    << LogTask(r.session_id, r.user_id, "user", r.user_input),
       LogTask(r.session_id, r.user_id, "assistant", out.reply),
       UpdateTask(r.session_id, out.current_stage, out.stage_turn_count,
                  out.story_context) >>


\* a background task runs: the store takes the write, or it raises and the
\* except branch of the task drops the write
StoreTakes(k) ==
    \/ /\ LET st == TaskWrite([sessions |-> sessions, chat_messages |-> chat_messages], k)
           IN  /\ sessions' = st.sessions
               /\ chat_messages' = st.chat_messages
       /\ UNCHANGED store_errors
    \/ /\ store_errors < MaxStoreErrors
       /\ store_errors' = store_errors + 1
       /\ UNCHANGED <<sessions, chat_messages>>

\* the next background task of a returned /chat request runs
RunTask(t) ==
    /\ pc[t] = "responded"
    /\ tasks' = [tasks EXCEPT ![t] = Tail(tasks[t])]
    /\ pc' = [pc EXCEPT ![t] = IF Len(tasks[t]) = 1 THEN "done" ELSE "responded"]
    /\ StoreTakes(Head(tasks[t]))
    /\ UNCHANGED <<req, raws, resp, prior, client, started, start_tasks, turnVars, sanVars>>


(***************************************************************************)
(* One /chat turn of each implementation, as seen by the client.           *)
(* exch is the last exchange, cs the session state the client holds (the   *)
(* fields of the last normal response; an error response leaves it).       *)
(***************************************************************************)
Variants == {"main", "main1", "main2"}

Inputs == {"Sam", "I Have Finished Writing This Part In My Template"}
RawTexts == {"Sam sounds brave! [STAY]", "Great! [ADVANCE]", "Hmm, tell me more.",
             "Yes! [STAY] [ADVANCE]", "[ADV[STAY]ANCE]"}
WelcomeTexts == {" Look, a forest! ", "Wow! [ADVANCE] [STAY]"}

Collaborator1 == {Returned(t) : t \in RawTexts} \cup {Raised}
Collaborator2 == {Returned(t) : t \in WelcomeTexts} \cup {Raised}

NoExchange == [req |-> <<>>, sent |-> <<>>, g1 |-> NotCalled, g2 |-> NotCalled,
               out |-> [kind |-> "none"]]
Pending(r) == [req |-> r, sent |-> <<>>, g1 |-> NotCalled, g2 |-> NotCalled,
               out |-> [kind |-> "pending"]]

\* the message list the first collaborator call of main2 received (main and main1
\* send one prompt string, which is not recorded)
SentTo(r, g1) == IF variant = "main2" /\ g1 # NotCalled THEN messages(r) ELSE <<>>

\* the session as /start (main, main1) or /session/{book_id}/start (main2) first returns it
FirstState(v) ==
    IF v = "main2"
    THEN [current_stage |-> 1, stage_turn_count |-> 0,
          story_context |-> "Book: " \o BookTitle]
    ELSE start_story

StateOf(out) == [current_stage |-> out.current_stage,
                 stage_turn_count |-> out.stage_turn_count,
                 story_context |-> out.story_context]

\* the handler answers the pending request: exch records the collaborator's
\* answers and the outcome, and the client keeps the state of a normal response
Answer(g1, g2, out) ==
    /\ exch.out.kind = "pending"
    /\ exch' = [exch EXCEPT !.g1 = g1, !.g2 = g2, !.out = out,
                            !.sent = SentTo(exch.req, g1)]
    /\ cs' = IF out.kind = "ok" THEN StateOf(out) ELSE cs
    /\ UNCHANGED <<variant, sanVars>>

\* main.py and main1.py keep no store
NoStore == UNCHANGED storeVars

\* one turn of main.py, the collaborator answering with one of C
AnswerMainFrom(C) ==
    /\ variant = "main"
    /\ \E g \in C : Answer(g, NotCalled, ChatEndpointMain(exch.req, g))
    /\ NoStore

AnswerMain == AnswerMainFrom(Collaborator1)

\* one turn of main1.py, the collaborator answering with one of C
AnswerMain1From(C) ==
    /\ variant = "main1"
    /\ \E g \in C : Answer(g, NotCalled, ChatEndpointMain1(exch.req, g))
    /\ NoStore

AnswerMain1 == AnswerMain1From(Collaborator1)

\* the second collaborator call is made only on an advance
SecondCalls(r, g1) ==
    IF HasStage(r.book_id, r.current_stage) /\ g1.ok /\ should_adv(r, g1.text)
    THEN Collaborator2
    ELSE {NotCalled}

\* the first call is made once the current stage has been found in the catalog
FirstCalls(r, C) ==
    IF HasStage(r.book_id, r.current_stage) THEN C ELSE {NotCalled}

\* the tasks a handler leaves to run: none when an exception left it
TasksOf(r, out) == IF out.kind = "ok" THEN TasksAtReturn(r, out) ELSE <<>>

\* the handler of main2 runs from the request to its return, the first
\* collaborator call answered with one of C: the response goes to the client and
\* the tasks it queued wait in slot 1; the store is as it was.  The tasks run
\* afterwards, one by one (RunTask)
AnswerMain2From(C) ==
    /\ variant = "main2"
    /\ exch.out.kind = "pending"
    /\ \E g1 \in FirstCalls(exch.req, C) : \E g2 \in SecondCalls(exch.req, g1) :
          LET out == ChatEndpointMain2(exch.req, g1, g2)
          IN  /\ Answer(g1, g2, out)
              /\ tasks' = [tasks EXCEPT ![1] = TasksOf(exch.req, out)]
              /\ pc' = [pc EXCEPT ![1] = IF out.kind = "ok" THEN "responded" ELSE "failed"]
    /\ UNCHANGED <<sessions, chat_messages, store_errors, req, raws, resp, prior, client,
                   started, start_tasks>>

AnswerMain2 == AnswerMain2From(Collaborator1)

StatelessRequests ==
    [user_input : Inputs, current_stage : 0..(StageCapMain + 1),
     stage_turn_count : 0..MaxTurns, story_context : {start_story.story_context}]

StoreRequests ==
    [user_input : Inputs, current_stage : 1..(CatalogSize + 1),
     stage_turn_count : 0..MaxTurns, story_context : {"", "Book: " \o BookTitle},
     book_id : {KnownBook, UnknownBook}, session_id : {1}, history : {<<>>},
     user_id : {"u1"}]

Requests(v) == IF v = "main2" THEN StoreRequests ELSE StatelessRequests

\* no request of the store-backed service is in flight and no task waits
NoCalls ==
    /\ pc = <<"idle", "idle">>
    /\ req = <<[session_id |-> 0], [session_id |-> 0]>>
    /\ raws = <<<<>>, <<>>>>
    /\ resp = <<[kind |-> "none"], [kind |-> "none"]>>
    /\ tasks = <<<<>>, <<>>>>
    /\ prior = <<{}, {}>>
    /\ client = <<>>
    /\ started = [kind |-> "none"]
    /\ start_tasks = {}
    /\ store_errors = 0

StoreIdle ==
    /\ sessions = <<>>
    /\ chat_messages = <<>>
    /\ NoCalls

\* the store once user u1 has started the known book and the welcome task has run
StoreStarted ==
    /\ sessions = <<NewSession("u1", KnownBook)>>
    /\ chat_messages = <<WelcomeMessage(1, "u1")>>
    /\ NoCalls

StoreOf(v) == IF v = "main2" THEN StoreStarted ELSE StoreIdle

SanIdle == text = "" /\ passes = <<>>

(***************************************************************************)
(* SpecTurn: one turn on any request, whatever state the request carries.  *)
(***************************************************************************)
TurnInit ==
    /\ variant \in Variants
    /\ \E r \in Requests(variant) : exch = Pending(r)
    /\ cs = FirstState(variant)
    /\ StoreOf(variant)
    /\ SanIdle

TurnNext == AnswerMain \/ AnswerMain1 \/ AnswerMain2 \/ RunTask(1)

SpecTurn == TurnInit /\ [][TurnNext]_vars

(***************************************************************************)
(* SpecEcho: a session in which every request sends back the state the     *)
(* previous turn returned, starting from the state the start call returns. *)
(***************************************************************************)
EchoRequest(u) ==
    IF variant = "main2"
    THEN [user_input |-> u, current_stage |-> cs.current_stage,
          stage_turn_count |-> cs.stage_turn_count, story_context |-> cs.story_context,
          book_id |-> KnownBook, session_id |-> 1, history |-> <<>>, user_id |-> "u1"]
    ELSE [user_input |-> u, current_stage |-> cs.current_stage,
          stage_turn_count |-> cs.stage_turn_count, story_context |-> cs.story_context]

\* the client sends its next request once the tasks of the last response have run
SubmitEcho ==
    /\ exch.out.kind # "pending"
    /\ tasks[1] = <<>>
    /\ cs.stage_turn_count <= MaxTurns
    /\ Len(cs.story_context) <= MaxContextLen
    /\ Len(chat_messages) < MaxLog
    /\ \E u \in Inputs : exch' = Pending(EchoRequest(u))
    /\ UNCHANGED <<variant, cs, storeVars, sanVars>>

EchoInit ==
    /\ variant \in Variants
    /\ exch = NoExchange
    /\ cs = FirstState(variant)
    /\ StoreOf(variant)
    /\ SanIdle

EchoNext == SubmitEcho \/ AnswerMain \/ AnswerMain1 \/ AnswerMain2 \/ RunTask(1)

SpecEcho == EchoInit /\ [][EchoNext]_vars

(***************************************************************************)
(* SpecStall: an echoing session whose collaborator always returns and     *)
(* never emits [ADVANCE].                                                  *)
(***************************************************************************)
QuietTexts == {"Sam sounds brave! [STAY]", "Hmm, tell me more."}
QuietCollaborator == {Returned(t) : t \in QuietTexts}

SubmitStall ==
    /\ exch.out.kind # "pending"
    /\ tasks[1] = <<>>
    /\ cs.stage_turn_count < MaxTurns
    /\ Len(cs.story_context) <= MaxContextLen
    /\ exch' = Pending(EchoRequest("Sam"))
    /\ UNCHANGED <<variant, cs, storeVars, sanVars>>

StallNext ==
    \/ SubmitStall
    \/ AnswerMainFrom(QuietCollaborator)
    \/ AnswerMain1From(QuietCollaborator)
    \/ AnswerMain2From(QuietCollaborator)
    \/ RunTask(1)

SpecStall == EchoInit /\ [][StallNext]_vars

(***************************************************************************)
(* SpecEmotion: one turn of main.py or main1.py answered with texts that   *)
(* name emotions in any order and letter case.                             *)
(***************************************************************************)
EmotionFragments == {"sad", "Thinking", "SURPRISED", "Sadly ", "happy", " so ", "sa", "d",
                     "ßad"}

RECURSIVE EmotionTextsOf(_)
EmotionTextsOf(n) ==
    IF n = 0 THEN {""}
    ELSE LET shorter == EmotionTextsOf(n - 1)
         IN  shorter \cup {f \o t : f \in EmotionFragments, t \in shorter}

EmotionInit ==
    /\ variant \in {"main", "main1"}
    /\ \E n \in 1..2 :
          exch = Pending([user_input |-> "Sam", current_stage |-> n, stage_turn_count |-> 0,
                          story_context |-> start_story.story_context])
    /\ cs = FirstState(variant)
    /\ StoreIdle
    /\ SanIdle

\* the collaborator answers with a text of up to MaxParts fragments
EmotionCollaborator == {Returned(t) : t \in EmotionTextsOf(MaxParts)}

EmotionNext == AnswerMainFrom(EmotionCollaborator) \/ AnswerMain1From(EmotionCollaborator)

SpecEmotion == EmotionInit /\ [][EmotionNext]_vars

(***************************************************************************)
(* SpecPrompt: one main2 turn on a request that carries a history of       *)
(* discrete records.                                                       *)
(***************************************************************************)
MaxHistory == 3          \* records in req.history

HistoryRecords == [role : {"user", "assistant", "system"}, content : {"yes", "ok"}]
Histories == UNION {[1..n -> HistoryRecords] : n \in 0..MaxHistory}

PromptRequests ==
    [user_input : {"yes"}, current_stage : {1}, stage_turn_count : {1},
     story_context : {"Book: " \o BookTitle}, book_id : {KnownBook}, session_id : {1},
     history : Histories, user_id : {"u1"}]

PromptInit ==
    /\ variant = "main2"
    /\ \E r \in PromptRequests : exch = Pending(r)
    /\ cs = FirstState("main2")
    /\ StoreStarted
    /\ SanIdle

PromptNext == AnswerMain2 \/ RunTask(1)

SpecPrompt == PromptInit /\ [][PromptNext]_vars


(***************************************************************************)
(* Spec: the store-backed service of src/main2.py.  Two /chat requests of   *)
(* one user may be in flight at once; a handler runs from the request to   *)
(* its return (suspended at each collaborator call), and the               *)
(* BackgroundTasks it queued run one by one after the response has been    *)
(* sent, in any interleaving with other requests and with the welcome task *)
(* of a start call.  An exception leaving the handler yields no response   *)
(* object, so the tasks queued so far are never run.                       *)
(***************************************************************************)
MaxSessions == 2         \* rows of the sessions table
MaxMessages == 2         \* /chat requests are accepted while LogLoad is below this

Users == {"u1", "u2"}
Slots == {1, 2}          \* two /chat requests may be in flight at once
StartSlot == Cardinality(Slots) + 1   \* the slot of a start call made beside them
AllSlots == Slots \cup {StartSlot}
StoreInputs == {"a"}
StoreTexts == {"Nice! [STAY]", "Done! [ADVANCE]"}

NoView == [session_id |-> 0]

ActiveRows(ss, u, b) ==
    {i \in DOMAIN ss : ss[i].user_id = u /\ ss[i].book_id = b /\ ~ss[i].is_archived}

\* the update without its user_id filter
ArchiveAllUsers(ss, u, b) ==
    [i \in DOMAIN ss |->
        IF ss[i].book_id = b THEN [ss[i] EXCEPT !.is_archived = TRUE] ELSE ss[i]]

\* .update({"is_archived": True}).eq("user_id", user_id).eq("book_id", book_id)
ArchiveAll(ss, u, b) ==
    [i \in DOMAIN ss |->
        IF ss[i].user_id = u /\ ss[i].book_id = b
        THEN [ss[i] EXCEPT !.is_archived = TRUE] ELSE ss[i]]

\* supabase.table("books").select("*").eq("id", book_id).single(): one row or an error
BookExists(b) == b \in {KnownBook, OtherBook}

\* the select of start_session without its is_archived filter
SelectAllRows(ss, u, b) == {i \in DOMAIN ss : ss[i].user_id = u /\ ss[i].book_id = b}

\* .select("*").eq("user_id", user_id).eq("book_id", book_id).eq("is_archived", False)
SelectActive(ss, u, b) == ActiveRows(ss, u, b)

ViewOf(sid, row) ==
    [session_id |-> sid, book_id |-> row.book_id, current_stage |-> row.current_stage,
     stage_turn_count |-> row.stage_turn_count, story_context |-> row.story_context,
     last |-> "start"]

\* POST /session/{book_id}/start.  The handler waits on the store up to five
\* times: the archive update, the select of non-archived rows, the books
\* lookup, the read of the recent messages or the insert, and the stage lookup.
\* A call is one step per request: a background task, or a request of another
\* call, may fall between two of them.  resp[t] holds what the call has read,
\* tasks[t] the task it has queued; the request ends with the call.
Starting(t) == pc[t] \in {"archive", "select", "books", "messages", "insert", "stage"}

\* a call arrives in slot t; calls are accepted while a table of `rows` rows
\* has room for the row each call that has yet to insert may add, or, when no
\* call has yet to insert, when the call will find a session to resume
StartCall(t, u, b, archive, rows) ==
    LET inserting == {o \in AllSlots :
                         \/ pc[o] \in {"archive", "select"}
                         \/ pc[o] \in {"books", "insert"} /\ resp[o].session_id = 0}
    IN  /\ ~Starting(t)
        /\ \/ Len(sessions) + Cardinality(inserting) < rows
           \/ /\ inserting = {}
              /\ ~archive
              /\ ActiveRows(sessions, u, b) # {}
        /\ req' = [req EXCEPT ![t] = [session_id |-> 0, user_id |-> u, book_id |-> b,
                                      archive_existing |-> archive]]
        /\ resp' = [resp EXCEPT ![t] = [kind |-> "pending"]]
        /\ pc' = [pc EXCEPT ![t] = IF archive THEN "archive" ELSE "select"]
        /\ UNCHANGED <<sessions, chat_messages, raws, tasks, prior, client, started,
                       start_tasks, store_errors, turnVars, sanVars>>

\* if req.archive_existing: update(is_archived = True).eq(user_id).eq(book_id)
StartArchive(t) ==
    /\ pc[t] = "archive"
    /\ sessions' = ArchiveAll(sessions, req[t].user_id, req[t].book_id)
    /\ pc' = [pc EXCEPT ![t] = "select"]
    /\ UNCHANGED <<chat_messages, req, raws, resp, tasks, prior, client, started,
                   start_tasks, store_errors, turnVars, sanVars>>

\* res = the select of non-archived rows; session = res.data[0] is the row the
\* store lists first, any of them, as it is when the select is answered
StartSelect(t) ==
    LET found == SelectActive(sessions, req[t].user_id, req[t].book_id)
    IN  /\ pc[t] = "select"
        /\ IF found = {}
           THEN resp' = [resp EXCEPT ![t] = [kind |-> "read", session_id |-> 0]]
           ELSE \E sid \in found :
                   resp' = [resp EXCEPT ![t] = [kind |-> "read", session_id |-> sid,
                                                session |-> sessions[sid],
                                                created |-> FALSE,
                                                recent_history |-> <<>>]]
        /\ pc' = [pc EXCEPT ![t] = "books"]
        /\ UNCHANGED <<sessions, chat_messages, req, raws, tasks, prior, client, started,
                       start_tasks, store_errors, turnVars, sanVars>>

\* the books lookup: .single() raises for a book that is not in the table, and
\* a call that raises sends no response
StartBooks(t) ==
    /\ pc[t] = "books"
    /\ IF BookExists(req[t].book_id)
       THEN /\ pc' = [pc EXCEPT ![t] = IF resp[t].session_id = 0 THEN "insert"
                                      ELSE "messages"]
            /\ UNCHANGED <<req, resp, started>>
       ELSE /\ pc' = [pc EXCEPT ![t] = "start_failed"]
            /\ started' = [kind |-> "unhandled", user_id |-> req[t].user_id,
                           book_id |-> req[t].book_id]
            /\ req' = [req EXCEPT ![t] = [session_id |-> 0]]
            /\ resp' = [resp EXCEPT ![t] = [kind |-> "none"]]
    /\ UNCHANGED <<sessions, chat_messages, raws, tasks, prior, client, start_tasks,
                   store_errors, turnVars, sanVars>>

\* the last ten chat_messages of the session found, oldest first
StartMessages(t) ==
    LET mine == SelectSeq(chat_messages, LAMBDA m : m.session_id = resp[t].session_id)
        last == IF Len(mine) > 10 THEN SubSeq(mine, Len(mine) - 9, Len(mine)) ELSE mine
    IN  /\ pc[t] = "messages"
        /\ resp' = [resp EXCEPT ![t].recent_history =
                       [i \in DOMAIN last |-> [role |-> last[i].role,
                                               content |-> last[i].content]]]
        /\ pc' = [pc EXCEPT ![t] = "stage"]
        /\ UNCHANGED <<sessions, chat_messages, req, raws, tasks, prior, client, started,
                       start_tasks, store_errors, turnVars, sanVars>>

\* the insert of the new session, whose row the call holds as inserted, and the
\* welcome task queued
StartInsert(t) ==
    LET u == req[t].user_id
        b == req[t].book_id
        sid == Len(sessions) + 1
    IN  /\ pc[t] = "insert"
        /\ sessions' = Append(sessions, NewSession(u, b))
        /\ resp' = [resp EXCEPT ![t] = [kind |-> "read", session_id |-> sid,
                                        session |-> NewSession(u, b), created |-> TRUE,
                                        recent_history |-> <<>>]]
        /\ tasks' = [tasks EXCEPT ![t] = <<LogTask(sid, u, "assistant",
                                                   WelcomeMessage(sid, u).content)>>]
        /\ pc' = [pc EXCEPT ![t] = "stage"]
        /\ UNCHANGED <<chat_messages, req, raws, prior, client, started, start_tasks,
                       store_errors, turnVars, sanVars>>

\* the stage lookup of the session the call holds, and the return: the client
\* gets the session as the call read or inserted it, and the task queued will
\* run; .single() raises for a stage that is not in the catalog, and the task of
\* a call that raises is never run
StartStage(t) ==
    LET u == req[t].user_id
        b == req[t].book_id
        held == resp[t]
    IN  /\ pc[t] = "stage"
        /\ IF HasStage(b, held.session.current_stage)
           THEN /\ pc' = [pc EXCEPT ![t] = "started"]
                /\ started' = [kind |-> "ok", user_id |-> u, book_id |-> b,
                               session_id |-> held.session_id, created |-> held.created,
                               recent_history |-> held.recent_history]
                /\ client' = [client EXCEPT ![u] = ViewOf(held.session_id, held.session)]
                /\ start_tasks' = start_tasks \cup {tasks[t][i] : i \in DOMAIN tasks[t]}
           ELSE /\ pc' = [pc EXCEPT ![t] = "start_failed"]
                /\ started' = [kind |-> "unhandled", user_id |-> u, book_id |-> b]
                /\ UNCHANGED <<client, start_tasks>>
        /\ tasks' = [tasks EXCEPT ![t] = <<>>]
        /\ req' = [req EXCEPT ![t] = [session_id |-> 0]]
        /\ resp' = [resp EXCEPT ![t] = [kind |-> "none"]]
        /\ UNCHANGED <<sessions, chat_messages, raws, prior, store_errors, turnVars, sanVars>>

\* the next store request of the start call in slot t
start_session(t) ==
    \/ StartArchive(t)
    \/ StartSelect(t)
    \/ StartBooks(t)
    \/ StartMessages(t)
    \/ StartInsert(t)
    \/ StartStage(t)

\* the requests a user's client sends: the state it holds (EchoRequests), or that
\* state with one field replaced (AnyRequests)
EchoRequests(u) ==
    LET v == client[u]
    IN  {[user_input |-> i, current_stage |-> v.current_stage,
          stage_turn_count |-> v.stage_turn_count,
          story_context |-> v.story_context, book_id |-> v.book_id,
          session_id |-> v.session_id, history |-> <<>>, user_id |-> u]
         : i \in StoreInputs}

AnyRequests(u) ==
    LET v == client[u]
        echo(i) == [user_input |-> i, current_stage |-> v.current_stage,
                    stage_turn_count |-> v.stage_turn_count,
                    story_context |-> v.story_context, book_id |-> v.book_id,
                    session_id |-> v.session_id, history |-> <<>>, user_id |-> u]
    IN  UNION {
          {echo(i)}
          \cup {[echo(i) EXCEPT !.current_stage = n] : n \in 1..(CatalogSize + 1)}
          \cup {[echo(i) EXCEPT !.session_id = k] : k \in DOMAIN sessions}
          \cup {[echo(i) EXCEPT !.book_id = UnknownBook]}
          : i \in StoreInputs}

InFlight(t) == pc[t] \in {"call1", "call2", "responded"}

\* the handler returns `out`: the response goes to the client, the tasks wait
Return(t, out) ==
    /\ resp' = [resp EXCEPT ![t] = out]
    /\ tasks' = [tasks EXCEPT ![t] = TasksAtReturn(req[t], out)]
    /\ pc' = [pc EXCEPT ![t] = "responded"]
    /\ client' = [client EXCEPT ![req[t].user_id] =
                    [session_id |-> req[t].session_id, book_id |-> req[t].book_id,
                     current_stage |-> out.current_stage,
                     stage_turn_count |-> out.stage_turn_count,
                     story_context |-> out.story_context,
                     last |-> "chat"]]

\* the failure path with the advance written before the welcome call of pass 2 is made
FailAfterWrite(t, what) ==
    /\ resp' = [resp EXCEPT ![t] = Unhandled(what)]
    /\ tasks' = [tasks EXCEPT ![t] = <<>>]
    /\ sessions' = IF pc[t] = "call2"
                   THEN update_session_state(sessions,
                            UpdateTask(req[t].session_id, req[t].current_stage + 1, 0,
                                       updated_context(req[t])))
                   ELSE sessions
    /\ UNCHANGED <<client, chat_messages>>

\* an exception leaves the handler: nothing is written, no task will run
Fail(t, what) ==
    /\ resp' = [resp EXCEPT ![t] = Unhandled(what)]
    /\ tasks' = [tasks EXCEPT ![t] = <<>>]
    /\ UNCHANGED <<client, sessions, chat_messages>>

\* audit records written, queued by a start call, or refused by the store
LogLoad == Len(chat_messages) + Cardinality(start_tasks) + store_errors

ChatRequest(t, u, R) ==
    /\ ~InFlight(t)
    /\ \A o \in Slots : o < t => InFlight(o)
    /\ client[u] # NoView
    /\ LogLoad < MaxMessages
    /\ \E r \in R :
        /\ r.stage_turn_count <= MaxTurns
        /\ Len(r.story_context) <= MaxContextLen
        /\ req' = [req EXCEPT ![t] = r]
        /\ prior' = [o \in AllSlots |-> IF o = t THEN {x \in Slots : InFlight(x)}
                                           ELSE prior[o] \ {t}]
        /\ raws' = [raws EXCEPT ![t] = <<>>]
        /\ IF HasStage(r.book_id, r.current_stage)
           THEN /\ pc' = [pc EXCEPT ![t] = "call1"]
                /\ resp' = [resp EXCEPT ![t] = [kind |-> "pending"]]
                /\ tasks' = [tasks EXCEPT ![t] =
                               <<LogTask(r.session_id, u, "user", r.user_input)>>]
                /\ UNCHANGED <<client, sessions, chat_messages>>
           ELSE /\ pc' = [pc EXCEPT ![t] = "keyerror"]
                /\ Fail(t, "KeyError")
    /\ UNCHANGED <<started, start_tasks, store_errors, turnVars, sanVars>>

ChatCall1(t) ==
    /\ pc[t] = "call1"
    /\ \E raw \in StoreTexts :
        /\ raws' = [raws EXCEPT ![t] = <<raw>>]
        /\ IF should_adv(req[t], raw)
           THEN /\ pc' = [pc EXCEPT ![t] = "call2"]
                /\ UNCHANGED <<resp, tasks, client>>
           ELSE Return(t, Response2(req[t], raw, NotCalled))
    /\ UNCHANGED <<sessions, chat_messages, req, prior, started, start_tasks, store_errors,
                   turnVars, sanVars>>

ChatCall1Fail(t) ==
    /\ pc[t] = "call1"
    /\ pc' = [pc EXCEPT ![t] = "failed1"]
    /\ Fail(t, "generate_content")
    /\ UNCHANGED <<req, raws, prior, started, start_tasks, store_errors, turnVars, sanVars>>

ChatCall2(t) ==
    /\ pc[t] = "call2"
    /\ \E w \in {"New page!"} :
        /\ raws' = [raws EXCEPT ![t] = Append(raws[t], w)]
        /\ Return(t, Response2(req[t], raws[t][1], Returned(w)))
    /\ UNCHANGED <<sessions, chat_messages, req, prior, started, start_tasks, store_errors,
                   turnVars, sanVars>>

ChatCall2Fail(t) ==
    /\ pc[t] = "call2"
    /\ pc' = [pc EXCEPT ![t] = "failed2"]
    /\ Fail(t, "generate_content")
    /\ UNCHANGED <<req, raws, prior, started, start_tasks, store_errors, turnVars, sanVars>>

\* the welcome task of a returned start call runs
RunStartTask ==
    \E k \in start_tasks :
        /\ start_tasks' = start_tasks \ {k}
        /\ StoreTakes(k)
        /\ UNCHANGED <<pc, req, raws, resp, tasks, prior, client, started, turnVars, sanVars>>

Init ==
    /\ variant = "main2"
    /\ exch = NoExchange
    /\ cs = FirstState("main2")
    /\ sessions = <<>>
    /\ chat_messages = <<>>
    /\ pc = [t \in AllSlots |-> "idle"]
    /\ req = [t \in AllSlots |-> [session_id |-> 0]]
    /\ raws = [t \in AllSlots |-> <<>>]
    /\ resp = [t \in AllSlots |-> [kind |-> "none"]]
    /\ tasks = [t \in AllSlots |-> <<>>]
    /\ prior = [t \in AllSlots |-> {}]
    /\ client = [u \in Users |-> NoView]
    /\ started = [kind |-> "none"]
    /\ start_tasks = {}
    /\ store_errors = 0
    /\ SanIdle

\* a start call arrives once the welcome task of the call before it has run
Next ==
    \/ /\ start_tasks = {}
       /\ \E b \in {KnownBook, UnknownBook}, archive \in BOOLEAN :
             StartCall(StartSlot, "u1", b, archive, MaxSessions)
    \/ start_session(StartSlot)
    \/ \E t \in Slots : ChatRequest(t, "u1", EchoRequests("u1"))
    \/ \E t \in Slots : ChatCall1(t)
    \/ \E t \in Slots : ChatCall1Fail(t)
    \/ \E t \in Slots : ChatCall2(t)
    \/ \E t \in Slots : ChatCall2Fail(t)
    \/ \E t \in Slots : RunTask(t)
    \/ RunStartTask

Spec == Init /\ [][Next]_vars

(***************************************************************************)
(* SpecLifecycle: the same service with calls arriving one at a time (a     *)
(* start call may arrive while a /chat request is in flight), each start   *)
(* call one step per store request, the sessions of two users, and         *)
(* requests of u1 whose fields need not be the ones the service last       *)
(* returned.                                                               *)
(***************************************************************************)
\* the start calls made: u1 on the known book and on one the books table does
\* not hold, the bystander u2 on the known book.
\* A call arrives once the start call before it has ended and its welcome task
\* has run; the tasks of /chat requests run at any time, between two store
\* requests of a start call included.
LifecycleStart ==
    /\ start_tasks = {}
    /\ \E c \in ({"u1"} \X {KnownBook, UnknownBook}) \cup ({"u2"} \X {KnownBook}),
          archive \in BOOLEAN :
          StartCall(StartSlot, c[1], c[2], archive, MaxSessions)

LifecycleNext ==
    \/ LifecycleStart
    \/ start_session(StartSlot)
    \/ /\ start_tasks = {}
       /\ ~Starting(StartSlot)
       /\ ChatRequest(1, "u1", AnyRequests("u1"))
    \/ ChatCall1(1)
    \/ ChatCall1Fail(1)
    \/ ChatCall2(1)
    \/ ChatCall2Fail(1)
    \/ RunTask(1)
    \/ RunStartTask

SpecLifecycle == Init /\ [][LifecycleNext]_vars

(***************************************************************************)
(* SpecRestart: start calls made one at a time, each one step per store    *)
(* request, on a table with room for a restarted session beside the        *)
(* session of another user or of another book.  Handlers run one at a      *)
(* time: a call or a /chat request arrives when no handler is at work.     *)
(* The tasks they queue run at any time, between two store requests of a   *)
(* start call included.                                                    *)
(***************************************************************************)
MaxRows == 3             \* rows of the sessions table in SpecRestart

\* u1 starts, resumes and restarts the known book; the other book of u1 and
\* the known book of u2 are started or resumed, never archived
RestartCalls ==
    ({"u1"} \X {KnownBook} \X BOOLEAN)
        \cup {<<"u1", OtherBook, FALSE>>, <<"u2", KnownBook, FALSE>>}

\* beside the sessions of u1 on the known book the table holds the session of
\* one other pair: a call for the other book or the other user is made when no
\* session of a third pair is stored.  A start call arrives once the welcome
\* task of the call before it has run, and so does a /chat request.
RestartNext ==
    \/ /\ start_tasks = {}
       /\ pc[1] \notin {"call1", "call2"}
       /\ \E c \in RestartCalls :
             /\ \A i \in DOMAIN sessions :
                   \/ sessions[i].user_id = "u1" /\ sessions[i].book_id = KnownBook
                   \/ sessions[i].user_id = c[1] /\ sessions[i].book_id = c[2]
                   \/ c[1] = "u1" /\ c[2] = KnownBook
             /\ StartCall(StartSlot, c[1], c[2], c[3], MaxRows)
    \/ start_session(StartSlot)
    \/ /\ start_tasks = {}
       /\ ~Starting(StartSlot)
       /\ ChatRequest(1, "u1", EchoRequests("u1"))
    \/ ChatCall1(1)
    \/ ChatCall2(1)
    \/ RunTask(1)
    \/ RunStartTask

SpecRestart == Init /\ [][RestartNext]_vars

(***************************************************************************)
(* SpecStartRace: start_session calls that overlap, each one step per      *)
(* store request on the sessions table.                                    *)
(***************************************************************************)
\* a call that arrives takes the lowest free slot
StartRaceNext ==
    \/ \E t \in Slots, u \in Users, b \in {KnownBook, UnknownBook}, archive \in BOOLEAN :
          /\ \A o \in Slots : o < t => Starting(o)
          /\ StartCall(t, u, b, archive, MaxSessions)
    \/ \E t \in Slots : start_session(t)
    \/ RunStartTask

SpecStartRace == Init /\ [][StartRaceNext]_vars


(***************************************************************************)
(* SpecSanitize: the reply-cleaning steps applied to a collaborator text,  *)
(* and applied again to their own result.                                  *)
(***************************************************************************)

Fragments == {"[ADV", "ANCE]", "[STAY]", "[ADVANCE]", " ", "\f", "Hi", "HAPPY:", "sad:"}

RECURSIVE TextsOf(_)
TextsOf(n) ==
    IF n = 0 THEN {""}
    ELSE LET shorter == TextsOf(n - 1)
         IN  shorter \cup {f \o t : f \in Fragments, t \in shorter}

SanInit ==
    /\ variant \in {"main", "main1"}
    /\ text \in TextsOf(MaxParts)
    /\ passes = <<>>
    /\ exch = NoExchange
    /\ cs = FirstState(variant)
    /\ StoreIdle

Subject == IF passes = <<>> THEN text ELSE passes[Len(passes)]

CleanMain ==
    /\ variant = "main"
    /\ Len(passes) < 2
    /\ passes' = Append(passes, clean_reply_main(Subject))
    /\ UNCHANGED <<text, turnVars, storeVars>>

CleanMain1 ==
    /\ variant = "main1"
    /\ Len(passes) < 2
    /\ passes' = Append(passes, clean_reply_main1(Subject))
    /\ UNCHANGED <<text, turnVars, storeVars>>

SanNext == CleanMain \/ CleanMain1

SpecSanitize == SanInit /\ [][SanNext]_vars

(***************************************************************************)
(* The claims.                                                             *)
(***************************************************************************)
Books == {KnownBook, OtherBook, UnknownBook}
Answered == exch.out.kind \notin {"none", "pending"}
Normal == exch.out.kind = "ok"

\* the turn ceiling each implementation is held to; main2 configures none and is
\* held to the largest one configured
CeilingOf(v) == IF v = "main" THEN TurnLimitMain ELSE TurnLimitMain1

FinalStage(v) ==
    IF v = "main" THEN StageCapMain ELSE IF v = "main1" THEN StageCapMain1 ELSE CatalogSize

\* what each implementation takes as a decision to advance
AdvanceDecided ==
    IF variant = "main" THEN should_advance_main(exch.req, exch.g1.text)
    ELSE IF variant = "main1" THEN should_advance_main1(exch.req, exch.g1.text)
    ELSE Contains(exch.g1.text, ADVANCE_TAG)

CollaboratorFailed == exch.g1 = Raised \/ exch.g2 = Raised

\* C1: the persisted current_stage of a session never decreases from one state
\* of the store to the next, whatever the requests carry.
C1_StageNeverDecreases ==
    [][\A i \in DOMAIN sessions :
          sessions'[i].current_stage >= sessions[i].current_stage]_vars

\* C2: a turn answered at stage_turn_count 0, below any minimum-turns gate >= 1,
\* has action STAY and leaves current_stage as the request carried it, whatever
\* the collaborator's text and the user's input contain.
C2_GateForcesStay ==
    (Normal /\ exch.req.stage_turn_count = 0)
        => /\ exch.out.action = "STAY"
           /\ exch.out.current_stage = exch.req.current_stage

\* C3: a turn answered at a stage_turn_count at or above the ceiling has action
\* ADVANCE or FINISH, whatever marker the collaborator's text contains, in every
\* implementation.
C3_CeilingForcesAdvance ==
    (Normal /\ exch.req.stage_turn_count >= CeilingOf(variant))
        => exch.out.action \in {"ADVANCE", "FINISH"}

\* C4: a session that sends back the state of each previous turn does not stay on
\* a non-final stage: it never reaches MaxTurns turns elapsed on such a stage (more
\* than any configured ceiling) without having advanced.
C4_NoStall ==
    cs.current_stage < FinalStage(variant) => cs.stage_turn_count < MaxTurns

\* C5: when an advance is decided on the final stage, the action is FINISH and
\* current_stage stays at the final stage number.
C5_FinalStageFinishes ==
    (Normal /\ exch.req.current_stage = FinalStage(variant) /\ AdvanceDecided)
        => /\ exch.out.action = "FINISH"
           /\ exch.out.current_stage = exch.req.current_stage

\* C6: a turn whose collaborator call failed still returns a normal response: its
\* reply is the fallback "try again" text and its action is STAY.
C6_FailureFallsBack ==
    (Answered /\ CollaboratorFailed)
        => /\ Normal
           /\ exch.out.action = "STAY"
           /\ Contains(Lower(exch.out.reply), Chars("try again"))

\* C7: the step in which a collaborator call of a request fails (first or second
\* call) leaves the sessions table as it was, and a failed request holds no
\* background task, so update_session_state never runs for it.
C7_FailureWritesNothing ==
    [][\A t \in Slots :
          /\ (pc[t] \in {"call1", "call2"} /\ pc'[t] \in {"failed1", "failed2"})
                => (sessions' = sessions /\ tasks'[t] = <<>>)
          /\ pc[t] \in {"failed1", "failed2"} => tasks[t] = <<>>]_vars

C7_Witness ==
    \E t \in Slots :
        /\ pc[t] = "failed2"
        /\ req[t].session_id \in DOMAIN sessions
        /\ sessions[req[t].session_id].current_stage = req[t].current_stage

\* no start call is between two of its store requests
NoStartInFlight == \A t \in AllSlots : ~Starting(t)

\* C8: with start_session calls executed one at a time, whatever background
\* tasks write between their store requests, there is at most one non-archived
\* session for each (user_id, book_id) in every state, and once a call has
\* returned and no call is in progress there is exactly one for its pair.
C8_OneActiveSession ==
    /\ \A u \in Users, b \in Books : Cardinality(ActiveRows(sessions, u, b)) <= 1
    /\ (started.kind = "ok" /\ NoStartInFlight)
          => Cardinality(ActiveRows(sessions, started.user_id, started.book_id)) = 1

\* a restart has returned: the archived session and the one created after it
C8_Witness ==
    /\ NoStartInFlight
    /\ started.kind = "ok"
    /\ started.created
    /\ \E i \in DOMAIN sessions :
          /\ sessions[i].is_archived
          /\ sessions[i].user_id = started.user_id
          /\ sessions[i].book_id = started.book_id

\* the outcome of request t2 had it been computed from the state request t1 returned
SerialOutcome(t1, t2) ==
    Response2([req[t2] EXCEPT !.current_stage = resp[t1].current_stage,
                              !.stage_turn_count = resp[t1].stage_turn_count,
                              !.story_context = resp[t1].story_context],
              raws[t2][1],
              IF Len(raws[t2]) > 1 THEN Returned(raws[t2][2]) ELSE NotCalled)

\* C9: when two requests for one session were in flight together and both have
\* completed, the persisted session is the result of applying them one after the
\* other in submission order.
C9_TurnsSerialised ==
    \A t1, t2 \in Slots :
        (/\ t1 # t2
         /\ pc[t1] = "done" /\ pc[t2] = "done"
         /\ t1 \in prior[t2]
         /\ req[t1].session_id = req[t2].session_id)
        => LET row == sessions[req[t2].session_id]
               serial == SerialOutcome(t1, t2)
           IN  /\ row.current_stage = serial.current_stage
               /\ row.stage_turn_count = serial.stage_turn_count
               /\ row.story_context = serial.story_context

HasLabelPrefix(s) == \E i \in DOMAIN PREFIXES : StartsWith(Upper(s), Chars(PREFIXES[i]))

\* C10: cleaning a cleaned reply returns it unchanged, and a cleaned reply holds
\* no control marker and (where label prefixes are stripped) no leading label.
C10_SanitizeIdempotent ==
    Len(passes) = 2
        => /\ passes[2] = passes[1]
           /\ ~Contains(passes[1], ADVANCE_TAG)
           /\ ~Contains(passes[1], STAY_TAG)
           /\ variant = "main1" => ~HasLabelPrefix(passes[1])

\* what a turn appended to the story_context its request carried
AppendedPart(r, out) ==
    SubSeq(out.story_context, Len(r.story_context) + 1, Len(out.story_context))

\* C11: the story_context of a normal response has the request's story_context
\* as a prefix and what follows it is the user input under its speaker label;
\* over turns that echo the returned context, each context has the one before it
\* as a prefix.
C11_ContextAppendOnly ==
    /\ [](Normal =>
            /\ StartsWith(exch.out.story_context, exch.req.story_context)
            /\ Contains(AppendedPart(exch.req, exch.out),
                        "Child: " \o exch.req.user_input))
    /\ [][StartsWith(cs'.story_context, cs.story_context)]_vars

\* the image the catalog holds for stage n
HasImage(v, book, n) ==
    IF v = "main2" THEN HasStage(book, n) ELSE n \in DOMAIN IMAGE_MAP

ImageOfStage(v, book, n) ==
    IF v = "main2" THEN story_stages(book)[n].image_url ELSE IMAGE_MAP[n]

BookOf(r) == IF variant = "main2" THEN r.book_id ELSE KnownBook

\* C12: a turn whose action is STAY returns the request's current_stage, the
\* request's stage_turn_count plus one, and the image of that same stage.
C12_StayKeepsStage ==
    (Normal /\ exch.out.action = "STAY")
        => /\ exch.out.current_stage = exch.req.current_stage
           /\ exch.out.stage_turn_count = exch.req.stage_turn_count + 1
           /\ HasImage(variant, BookOf(exch.req), exch.req.current_stage)
           /\ exch.out.image_url
                = ImageOfStage(variant, BookOf(exch.req), exch.req.current_stage)

\* C13: a turn whose action is ADVANCE returns the request's current_stage plus
\* one, stage_turn_count 0 and the image of the new stage; ADVANCE is never
\* reported with the stage unchanged.
C13_AdvanceMovesStage ==
    (Normal /\ exch.out.action = "ADVANCE")
        => /\ exch.out.current_stage = exch.req.current_stage + 1
           /\ exch.out.stage_turn_count = 0
           /\ HasImage(variant, BookOf(exch.req), exch.req.current_stage + 1)
           /\ exch.out.image_url
                = ImageOfStage(variant, BookOf(exch.req), exch.req.current_stage + 1)

\* C14: a turn whose user_input holds the confirmation phrase in any letter case,
\* at a stage_turn_count of 2 or more (at or above every observed minimum-turns
\* gate), advances whatever the collaborator's text contains, in every
\* implementation.
C14_PhraseAdvances ==
    (Normal /\ button_done(exch.req) /\ exch.req.stage_turn_count >= 2)
        => exch.out.action \in {"ADVANCE", "FINISH"}

\* the rows of user u and book b
RowsOf(ss, u, b) == {i \in DOMAIN ss : ss[i].user_id = u /\ ss[i].book_id = b}

SameProgress(a, b) ==
    /\ a.current_stage = b.current_stage
    /\ a.stage_turn_count = b.stage_turn_count
    /\ a.story_context = b.story_context

\* a step of a start call leaves the progress of every session as it was and
\* the sessions of other users or other books untouched
OthersKept(u, b) ==
    \A i \in DOMAIN sessions :
        /\ i \in DOMAIN sessions'
        /\ SameProgress(sessions'[i], sessions[i])
        /\ i \notin RowsOf(sessions, u, b) => sessions'[i] = sessions[i]

\* the archive request: every session of (u, b) is archived, none is added
ArchiveContract(u, b) ==
    /\ Len(sessions') = Len(sessions)
    /\ \A i \in RowsOf(sessions, u, b) : sessions'[i].is_archived

\* the select request: the table is left as it was, and the call holds a
\* non-archived session of (u, b) with the progress it has, or none when there
\* is none
SelectContract(t, u, b) ==
    LET kept == ActiveRows(sessions, u, b)
        held == resp'[t]
    IN  /\ sessions' = sessions
        /\ held.session_id = 0 <=> kept = {}
        /\ held.session_id # 0
              => /\ held.session_id \in kept
                 /\ ~held.created
                 /\ SameProgress(held.session, sessions[held.session_id])

\* the insert request: one session is added, at stage 1 with turn count 0, and
\* the call holds it
InsertContract(t, u, b) ==
    /\ Len(sessions') = Len(sessions) + 1
    /\ LET n == sessions'[Len(sessions')]
       IN  /\ n.user_id = u /\ n.book_id = b /\ ~n.is_archived
           /\ n.current_stage = 1 /\ n.stage_turn_count = 0
           /\ SameProgress(resp'[t].session, n)
    /\ resp'[t].session_id = Len(sessions')
    /\ resp'[t].created

\* the lookups and the return: the table is left as it was, the insert follows
\* exactly when the select found no session, and a call that returns gives the
\* client the session it holds, with the progress read or inserted
ReturnContract(t, u, b) ==
    /\ sessions' = sessions
    /\ pc'[t] = "insert" <=> (pc[t] = "books" /\ resp[t].session_id = 0 /\ BookExists(b))
    /\ pc'[t] = "started"
          => /\ started'.session_id = resp[t].session_id
             /\ started'.created = resp[t].created
             /\ client'[u].session_id = resp[t].session_id
             /\ SameProgress(client'[u], resp[t].session)

\* the session a call holds is a non-archived session of its (user, book), and
\* the only one
HoldsTheActive(t, u, b) ==
    resp[t].session_id # 0 => ActiveRows(sessions, u, b) = {resp[t].session_id}

\* what the store request a start call makes in this step leaves behind
StartContract(t) ==
    LET u == req[t].user_id
        b == req[t].book_id
        kept == ActiveRows(sessions, u, b)
    IN  /\ (pc[t] = "select" /\ req[t].archive_existing) => kept = {}
        /\ (pc[t] \in {"books", "insert"} /\ resp[t].session_id = 0) => kept = {}
        /\ pc[t] \in {"books", "messages", "stage"} => HoldsTheActive(t, u, b)
        /\ pc'[t] # pc[t]
              => /\ OthersKept(u, b)
                 /\ pc[t] = "archive" => ArchiveContract(u, b)
                 /\ pc[t] = "select" => SelectContract(t, u, b)
                 /\ pc[t] = "insert" => InsertContract(t, u, b)
                 /\ pc[t] \in {"books", "messages", "stage"} => ReturnContract(t, u, b)

\* C15: of a start_session call run with no other start call beside it, whatever
\* background tasks write between its store requests: with archive_existing set
\* its archive request archives every session of its (user, book), so that its
\* select finds none; a call whose select finds no non-archived session inserts
\* one at stage 1 with turn count 0 and returns it, and none is non-archived when
\* it inserts; a call whose select finds one returns it with the current_stage,
\* stage_turn_count and story_context it had when selected, adds no session, and
\* that session is still the one non-archived session of the pair when the call
\* returns.  No request of the call modifies a session of another user or book
\* or the progress of any session, and no step of the service removes a session
\* or a turn record.
C15_StartContract ==
    [][/\ \A t \in AllSlots : Starting(t) => StartContract(t)
       /\ Len(sessions') >= Len(sessions)
       /\ Len(chat_messages') >= Len(chat_messages)
       /\ SubSeq(chat_messages', 1, Len(chat_messages)) = chat_messages]_vars

\* a resume after a restart made beside the session of another user: the call
\* returned the session created by the restart, the one archived by it is kept,
\* and turns of the user are on record
C15_Witness ==
    /\ NoStartInFlight
    /\ started.kind = "ok"
    /\ ~started.created
    /\ \E i, j, k \in DOMAIN sessions :
          /\ i < j /\ k < j
          /\ sessions[i].user_id = started.user_id /\ sessions[i].book_id = started.book_id
          /\ sessions[i].is_archived
          /\ started.session_id = j /\ ~sessions[j].is_archived
          /\ sessions[k].user_id # started.user_id /\ ~sessions[k].is_archived
    /\ \E m \in DOMAIN chat_messages : chat_messages[m].role = "user"

\* the request names a stage (and, in main2, a book) the catalog holds
InCatalog(r) == HasImage(variant, BookOf(r), r.current_stage)

\* C16: below the turn ceiling and without the completion phrase in the user
\* input, a turn on a non-final stage has action ADVANCE exactly when the
\* collaborator's raw text contains [ADVANCE], whether or not it also contains
\* [STAY]; this is checked at every turn count below the ceiling, so for every
\* minimum-turns gate.
C16_MarkerDecides ==
    (/\ Normal
     /\ InCatalog(exch.req)
     /\ exch.req.current_stage < FinalStage(variant)
     /\ exch.req.stage_turn_count < CeilingOf(variant)
     /\ ~button_done(exch.req))
        => (exch.out.action = "ADVANCE" <=> Contains(exch.g1.text, ADVANCE_TAG))

\* a text with both markers decided as an advance in the store-backed endpoint
C16_Witness ==
    /\ Normal /\ variant = "main2"
    /\ exch.req.current_stage < FinalStage(variant)
    /\ exch.req.stage_turn_count = 1
    /\ ~button_done(exch.req)
    /\ Contains(exch.g1.text, ADVANCE_TAG) /\ Contains(exch.g1.text, STAY_TAG)
    /\ exch.out.action = "ADVANCE"

\* C17: the reply of a normal response contains neither [STAY] nor [ADVANCE],
\* whatever the collaborator returned in its first or second call.
C17_ReplyHasNoMarker ==
    Normal => /\ ~Contains(exch.out.reply, STAY_TAG)
              /\ ~Contains(exch.out.reply, ADVANCE_TAG)

\* C18: a turn whose second collaborator call returned moves current_stage by
\* exactly one and returns stage_turn_count 0, whatever the second text contains.
C18_SecondCallNoDecision ==
    (Normal /\ exch.g2.ok)
        => /\ exch.out.current_stage = exch.req.current_stage + 1
           /\ exch.out.stage_turn_count = 0

\* the second text carries [ADVANCE] and the stage moved by one
C18_Witness ==
    /\ Normal /\ exch.g2.ok
    /\ Contains(exch.g2.text, ADVANCE_TAG)
    /\ exch.out.current_stage = exch.req.current_stage + 1
    /\ exch.req.stage_turn_count > 0

\* the history without the one record the client added for the input just
\* submitted: the most recent user record whose content is the input
WithoutSubmitted(h, u) ==
    LET hits == {i \in DOMAIN h : h[i].content = u /\ h[i].role = "user"}
        last == CHOOSE i \in hits : \A j \in hits : j <= i
    IN  IF hits = {} THEN h
        ELSE SubSeq(h, 1, last - 1) \o SubSeq(h, last + 1, Len(h))

\* C19: in the list sent to the collaborator the submitted user_input is the
\* last message, with role user, and the only message holding it; the records of
\* history that differ from it follow the instruction in their order, assistant
\* mapped to model and every other role to user; and history loses at most the
\* one record of the submitted input.
C19_HistoryDeduplicated ==
    (Answered /\ exch.g1 # NotCalled)
        => LET r == exch.req
               m == exch.sent
               mid == SubSeq(m, 2, Len(m) - 1)
               differs(msg) == msg.content # r.user_input
               others == SelectSeq(r.history, differs)
               holds(x) == x.parts = <<r.user_input>>
               want == WithoutSubmitted(r.history, r.user_input)
           IN  /\ m[Len(m)] = [role |-> "user", parts |-> <<r.user_input>>]
               /\ Cardinality({i \in DOMAIN m : holds(m[i])}) = 1
               /\ SelectSeq(mid, LAMBDA x : ~holds(x))
                    = [i \in 1..Len(others) |->
                         [role |-> role_of(others[i]), parts |-> <<others[i].content>>]]
               /\ mid = [i \in 1..Len(want) |->
                           [role |-> role_of(want[i]), parts |-> <<want[i].content>>]]

\* C20: a turn whose request names a stage or a book the catalog does not hold
\* is answered with a not-found error: not with a normal response built on
\* another stage, and not with an unhandled fault.
C20_UnknownReferenceNotFound ==
    (Answered /\ ~InCatalog(exch.req))
        => /\ exch.out.kind = "http_error"
           /\ exch.out.status = 404

\* the text, upper-cased, names the emotion e
Names(raw, e) == Contains(Upper(raw), Chars(e))

\* C21: in the implementations that return an emotion (main.py, main1.py) the
\* emotion of a response is HAPPY exactly when the upper-cased collaborator text
\* holds none of SURPRISED, THINKING, SAD; otherwise it is SAD if the text names
\* SAD, else THINKING if it names THINKING, else SURPRISED, wherever the keywords
\* stand in the text.
C21_EmotionByPriority ==
    (Normal /\ variant \in {"main", "main1"})
        => LET raw == exch.g1.text
           IN  exch.out.emotion =
                 IF Names(raw, "SAD") THEN "SAD"
                 ELSE IF Names(raw, "THINKING") THEN "THINKING"
                 ELSE IF Names(raw, "SURPRISED") THEN "SURPRISED"
                 ELSE "HAPPY"

\* C22: in a session that starts at stage 1 with turn count 0 and echoes the
\* state of each response, current_stage stays within 1..N (N the number of
\* stages of the catalog) and stage_turn_count stays at or above 0, whatever the
\* collaborator returns.
C22_StageWithinCatalog ==
    /\ cs.current_stage \in 1..FinalStage(variant)
    /\ cs.stage_turn_count >= 0

\* an advance was decided on the final stage and the stage stayed there
C22_Witness ==
    /\ Normal /\ variant = "main"
    /\ exch.req.current_stage = FinalStage(variant)
    /\ AdvanceDecided
    /\ cs.current_stage = FinalStage(variant)

\* no request naming session sid is between its arrival and its last background task
Quiet(sid) == \A t \in Slots : ~(InFlight(t) /\ req[t].session_id = sid)

\* C23: when no /chat turn of a session is in flight, the persisted current_stage,
\* stage_turn_count and story_context of the session are those of the most recent
\* /chat response for it (the one its user's client holds).
C23_StoreMatchesLastResponse ==
    \A u \in Users :
        (/\ client[u] # NoView
         /\ client[u].last = "chat"
         /\ Quiet(client[u].session_id))
            => SameProgress(sessions[client[u].session_id], client[u])

\* the step runs the next background task of request t
RunsTaskOf(t) == tasks[t] # <<>> /\ tasks'[t] = Tail(tasks[t])

\* C24: a step that changes the current_stage, stage_turn_count or story_context
\* of a session is the background write of a /chat request made by the user who
\* owns that session, and the session is not archived.
C24_OnlyOwnActiveSession ==
    [][\A i \in DOMAIN sessions :
          ~SameProgress(sessions'[i], sessions[i])
              => /\ ~sessions[i].is_archived
                 /\ \E t \in Slots :
                       /\ RunsTaskOf(t)
                       /\ req[t].session_id = i
                       /\ req[t].user_id = sessions[i].user_id]_vars

\* C25: however the archive, select and insert operations of overlapping
\* start_session calls interleave, no (user_id, book_id) pair has more than one
\* non-archived session.
C25_OneActiveUnderRace ==
    \A u \in Users, b \in Books : Cardinality(ActiveRows(sessions, u, b)) <= 1

====
